---- MODULE Spec2Model ----
(***************************************************************************)
(* Degradation pipeline engine of xunvivi/python: the effect registry, the *)
(* per-effect parameter validation, the BaseDegradation.process template,  *)
(* DegradationPipeline (construction and apply) and the composite demo     *)
(* entry point that drives a pipeline over an image or a video.            *)
(*                                                                         *)
(* Python values are tagged records: [int |-> n], [flt |-> c] (c is the    *)
(* value in hundredths), [str |-> s], [none |-> TRUE], [list |-> seq] and  *)
(* [dict |-> f, keys |-> k] where k is the insertion order of the keys.    *)
(* A frame is [shape, dtype, hist]: hist is the sequence of transforms     *)
(* that have changed its content, oldest first.                            *)
(***************************************************************************)
EXTENDS Integers, Sequences, FiniteSets, TLC

(***************************************************************************)
(* Bounds of the model.                                                    *)
(***************************************************************************)
MaxConfigs == 3

MaxFrames == 3

MaxApplies == 2

\* Most parameters of the allow-list a caller gives in one params mapping.
MaxParams == 2

(***************************************************************************)
(* Python values.                                                          *)
(***************************************************************************)
I(n) == [int |-> n]

F(c) == [flt |-> c]

S(s) == [str |-> s]

L(q) == [list |-> q]

None == [none |-> TRUE]

IsInt(v) == DOMAIN v = {"int"}

IsFlt(v) == DOMAIN v = {"flt"}

IsNum(v) == IsInt(v) \/ IsFlt(v)

IsStr(v) == DOMAIN v = {"str"}

IsNone(v) == DOMAIN v = {"none"}

IsList(v) == DOMAIN v = {"list"}

IsDict(v) == DOMAIN v = {"dict", "keys"}

RangeOf(q) == {q[i] : i \in 1..Len(q)}

\* A dict literal from a sequence of <<key, value>> pairs (keys distinct).
Dict(pairs) ==
    [keys |-> [i \in 1..Len(pairs) |-> pairs[i][1]],
     dict |-> [k \in {pairs[i][1] : i \in 1..Len(pairs)} |->
                 pairs[CHOOSE i \in 1..Len(pairs) : pairs[i][1] = k][2]]]

EmptyDict == Dict(<<>>)

Has(d, k) == k \in DOMAIN d.dict

Get(d, k, default) == IF Has(d, k) THEN d.dict[k] ELSE default

Put(d, k, v) ==
    [keys |-> IF Has(d, k) THEN d.keys ELSE Append(d.keys, k),
     dict |-> [x \in DOMAIN d.dict \cup {k} |-> IF x = k THEN v ELSE d.dict[x]]]

Pop(d, k) ==
    [keys |-> SelectSeq(d.keys, LAMBDA x : x # k),
     dict |-> [x \in DOMAIN d.dict \ {k} |-> d.dict[x]]]

\* Python truthiness, as used by "params or {}".
Truthy(v) ==
    CASE IsNone(v) -> FALSE
      [] IsInt(v)  -> v.int # 0
      [] IsFlt(v)  -> v.flt # 0
      [] IsStr(v)  -> v.str # ""
      [] IsList(v) -> Len(v.list) > 0
      [] IsDict(v) -> Len(v.keys) > 0
      [] OTHER     -> TRUE

\* The value of a number in hundredths.
Cent(v) == IF IsInt(v) THEN v.int * 100 ELSE v.flt

\* int(x): truncation toward zero.
ToInt(v) ==
    IF IsInt(v) THEN v.int
    ELSE IF v.flt >= 0 THEN v.flt \div 100 ELSE -((-v.flt) \div 100)

\* max(a, b) and min(a, b) of Python: the first argument wins a tie.
PyMax(a, b) == IF Cent(b) > Cent(a) THEN b ELSE a

PyMin(a, b) == IF Cent(b) < Cent(a) THEN b ELSE a

\* np.clip(x, lo, hi): the result is a numpy float.
NpClip(v, lo, hi) ==
    F(IF Cent(v) < lo THEN lo ELSE IF Cent(v) > hi THEN hi ELSE Cent(v))

\* float(x) without the clamp.
ClampFloatUnclamped(v, lo, hi) == F(Cent(v))

\* max(lo, min(hi, float(x)))
ClampFloat(v, lo, hi) ==
    F(IF Cent(v) > hi THEN hi ELSE IF Cent(v) < lo THEN lo ELSE Cent(v))

\* max(lo, min(hi, int(x)))
ClampInt(v, lo, hi) ==
    I(IF ToInt(v) > hi THEN hi ELSE IF ToInt(v) < lo THEN lo ELSE ToInt(v))

(***************************************************************************)
(* Errors.  The fields say what the message of the exception contains:     *)
(* pos is the 1-indexed position it names (0: none), name the effect or    *)
(* sub-effect name it names ("": none), key the parameter it names, listed *)
(* the effect names it enumerates, phase the process() phase it names, and *)
(* cause the chained or embedded underlying exception.                     *)
(***************************************************************************)
NoErr == [type |-> "none"]

Err(type, site) ==
    [type |-> type, site |-> site, pos |-> 0, name |-> "", key |-> "",
     listed |-> {}, phase |-> "", cause |-> NoErr]

IsErr(e) == e.type # "none"

Ok(p) == [ok |-> TRUE, params |-> p, err |-> NoErr]

Fail(e) == [ok |-> FALSE, params |-> EmptyDict, err |-> e]

(***************************************************************************)
(* Effect registry (single_main.DEGRADATION_CLASSES) and the literals the  *)
(* effects compare against.  The source's Chinese literals are written in  *)
(* ASCII: "zh_gaussian_blur" is the literal for Gaussian blur, and so on.  *)
(***************************************************************************)
ClassNames ==
    [blur |-> "BlurDegradation", noise |-> "NoiseDegradation",
     resample |-> "ResampleDegradation", compression |-> "CompressionDegradation",
     aliasing |-> "AliasingDegradation", scratch |-> "ScratchDegradation",
     dirt |-> "DirtDegradation", interlace |-> "InterlaceDegradation",
     edge_artifact |-> "EdgeArtifactDegradation",
     motion_blur |-> "MotionBlurDegradation",
     flicker |-> "FlickerDegradation", shake |-> "ShakeDegradation"]

DEGRADATION_CLASSES == DOMAIN ClassNames

ZhGaussianBlur == "zh_gaussian_blur"

ZhMeanBlur == "zh_mean_blur"

ZhGaussianNoise == "zh_gaussian_noise"

ZhPoissonNoise == "zh_poisson_noise"

ZhSaltPepperNoise == "zh_salt_pepper_noise"

valid_noise_types == {ZhGaussianNoise, ZhPoissonNoise, ZhSaltPepperNoise}

INTERPOLATION_MAP == {"bilinear", "nearest", "bicubic", "area"}

SUPPORTED_FORMATS ==
    [jpeg  |-> [type |-> "image", default_quality |-> 80, bitrate_supported |-> FALSE,
                default_bitrate |-> 0],
     png   |-> [type |-> "image", default_quality |-> 3, bitrate_supported |-> FALSE,
                default_bitrate |-> 0],
     webp  |-> [type |-> "image", default_quality |-> 80, bitrate_supported |-> FALSE,
                default_bitrate |-> 0],
     h264  |-> [type |-> "video", default_quality |-> 23, bitrate_supported |-> TRUE,
                default_bitrate |-> 2000],
     mpeg4 |-> [type |-> "video", default_quality |-> 5, bitrate_supported |-> TRUE,
                default_bitrate |-> 1500]]

color_map ==
    [black |-> <<0, 0, 0>>, brown |-> <<70, 40, 10>>, gray |-> <<100, 100, 100>>,
     dark_brown |-> <<40, 20, 5>>]

allowed_params ==
    [blur |-> <<"blur_type", "kernel_size", "sigma">>,
     noise |-> <<"noise_type", "intensity", "density", "salt_pepper_ratio">>,
     resample |-> <<"scale_factor", "interpolation">>,
     compression |-> <<"quality", "format", "bitrate", "fps">>,
     aliasing |-> <<"scale_factor", "downsample_factor">>,
     scratch |-> <<"num_scratches", "width_range", "intensity", "line_width",
                   "brightness">>,
     dirt |-> <<"num_spots", "size_range", "darkness", "spot_size", "spot_color">>,
     interlace |-> <<"intensity">>,
     edge_artifact |-> <<"strength", "kernel_size">>,
     motion_blur |-> <<"kernel_size", "angle">>,
     flicker |-> <<"range", "intensity", "frequency", "amplitude">>,
     shake |-> <<"max_offset", "mix_weight", "frequency", "displacement">>,
     Stage1 |-> <<"blur", "resample", "noise", "compression">>,
     Stage2 |-> <<"blur", "resample", "noise", "compression">>,
     Stage3 |-> <<"degradation_type", "params">>]

\* str.lower() on the literals the model feeds it.
Lower(s) ==
    CASE s = "JPEG" -> "jpeg"
      [] s = "PNG" -> "png"
      [] s = "H264" -> "h264"
      [] s = "Black" -> "black"
      [] OTHER -> s

\* A parameter error raised by an effect's validation for parameter k.
ParamErr(type, site, k) == [Err(type, site) EXCEPT !.key = k]

\* A numeric parameter whose value is not a number: the arithmetic or the
\* int()/float() conversion of the source raises.
NotNumErr(site, k) == ParamErr("TypeError", site, k)

(***************************************************************************)
(* validate_params of the twelve effects.  Each takes the params mapping   *)
(* and yields Ok(normalised mapping) or Fail(error).                       *)
(***************************************************************************)
\* x if x is odd else x + 1, as written with "x % 2 == 1".
OddUp(v) ==
    IF Cent(v) % 200 = 100 THEN v
    ELSE IF IsInt(v) THEN I(v.int + 1) ELSE F(v.flt + 100)

BlurValidate(p) ==
    LET Sigma(p2) ==
            LET sg == Get(p2, "sigma", F(100))
            IN  IF p2.dict["blur_type"] = S(ZhGaussianBlur)
                THEN IF ~IsNum(sg) THEN Fail(NotNumErr("blur.sigma", "sigma"))
                     ELSE Ok(Put(p2, "sigma", PyMax(F(10), sg)))
                ELSE Ok(p2)
        KernelSize(p1) ==
            LET ks0 == Get(p1, "kernel_size", I(5))
            IN  IF Has(p1, "kernel_size") /\ ~IsNum(ks0)
                THEN Fail(NotNumErr("blur.kernel_size", "kernel_size"))
                ELSE Sigma(IF Has(p1, "kernel_size")
                           THEN Put(p1, "kernel_size", OddUp(PyMax(I(1), ks0)))
                           ELSE Put(p1, "kernel_size", I(5)))
    IN  KernelSize(IF Has(p, "blur_type") THEN p
                   ELSE Put(p, "blur_type", S(ZhGaussianBlur)))

NoiseValidate(p) ==
    LET nt == Get(p, "noise_type", S(ZhGaussianNoise))
    IN  IF ~(IsStr(nt) /\ nt.str \in valid_noise_types)
        THEN Fail(ParamErr("ValueError", "noise.noise_type", "noise_type"))
        ELSE
        LET p1 == Put(p, "noise_type", nt)
        IN  IF nt.str \in {ZhGaussianNoise, ZhPoissonNoise}
            THEN LET it == Get(p1, "intensity", F(500))
                 IN  IF ~IsNum(it) THEN Fail(NotNumErr("noise.intensity", "intensity"))
                     ELSE Ok(Pop(Pop(Put(p1, "intensity", NpClip(it, 1, 3000)),
                                     "density"), "salt_pepper_ratio"))
            ELSE LET it == Get(p1, "intensity", F(100))
                     dp == Get(p1, "density", F(500))
                     sr == Get(p1, "salt_pepper_ratio", F(50))
                 IN  IF ~IsNum(it) THEN Fail(NotNumErr("noise.intensity", "intensity"))
                     ELSE IF ~IsNum(dp) THEN Fail(NotNumErr("noise.density", "density"))
                     ELSE IF ~IsNum(sr)
                     THEN Fail(NotNumErr("noise.salt_pepper_ratio", "salt_pepper_ratio"))
                     ELSE Ok(Put(Put(Put(p1, "intensity", NpClip(it, 1, 100)),
                                     "density", NpClip(F(Cent(dp) \div 100), 1, 20)),
                                 "salt_pepper_ratio", NpClip(sr, 10, 90)))

ResampleValidate(p) ==
    LET scale == Get(p, "scale_factor", F(50))
        interp == Get(p, "interpolation", S("bilinear"))
    IN  IF ~IsNum(scale) \/ ~(0 < Cent(scale) /\ Cent(scale) < 100)
        THEN Fail(ParamErr("ValueError", "resample.scale_factor", "scale_factor"))
        ELSE IF ~(IsStr(interp) /\ interp.str \in INTERPOLATION_MAP)
        THEN Fail(ParamErr("ValueError", "resample.interpolation", "interpolation"))
        ELSE Ok(Put(Put(p, "scale_factor", scale), "interpolation", interp))

CompressionValidate(p) ==
    LET Fps(format_info, p3) ==
            IF format_info.type = "video"
            THEN Ok(Put(p3, "fps", Get(p3, "fps", I(30))))
            ELSE Ok(p3)
        Bitrate(format_info, p2) ==
            LET b0 == Get(p2, "bitrate", I(format_info.default_bitrate))
            IN  IF format_info.bitrate_supported /\ ~IsNum(b0)
                THEN Fail(NotNumErr("compression.bitrate", "bitrate"))
                ELSE Fps(format_info,
                         IF format_info.bitrate_supported
                         THEN Put(p2, "bitrate", ClampInt(b0, 100, 20000))
                         ELSE Pop(p2, "bitrate"))
        Quality(fmt, format_info, p1) ==
            LET q0 == Get(p1, "quality", I(format_info.default_quality))
            IN  IF ~IsNum(q0) THEN Fail(NotNumErr("compression.quality", "quality"))
                ELSE Bitrate(format_info,
                             Put(p1, "quality",
                                 IF format_info.type = "image"
                                 THEN IF fmt = "png" THEN ClampInt(q0, 0, 9)
                                      ELSE ClampInt(q0, 1, 100)
                                 ELSE IF fmt = "h264" THEN ClampInt(q0, 0, 51)
                                      ELSE ClampInt(q0, 0, 31)))
        Format(fmt) == Quality(fmt, SUPPORTED_FORMATS[fmt], Put(p, "format", S(fmt)))
        f0 == Get(p, "format", S("jpeg"))
    IN  IF ~IsStr(f0) THEN Fail(ParamErr("AttributeError", "compression.format", "format"))
        ELSE IF Lower(f0.str) \notin DOMAIN SUPPORTED_FORMATS
        THEN Fail(ParamErr("ValueError", "compression.format", "format"))
        ELSE Format(Lower(f0.str))

\* 1.0 / x, to the hundredth.
Recip(v) == F(10000 \div Cent(v))

AliasingValidate(p) ==
    IF Has(p, "downsample_factor")
    THEN LET d == p.dict["downsample_factor"]
         IN  IF ~IsNum(d)
             THEN Fail(NotNumErr("aliasing.downsample_factor", "downsample_factor"))
             ELSE IF Cent(d) <= 100
             THEN Fail(ParamErr("ValueError", "aliasing.downsample_factor",
                                "downsample_factor"))
             ELSE Ok(Put(Put(p, "downsample_factor", F(Cent(d))),
                         "scale_factor", Recip(d)))
    ELSE LET scale == Get(p, "scale_factor", F(30))
         IN  IF ~IsNum(scale)
             THEN Fail(NotNumErr("aliasing.scale_factor", "scale_factor"))
             ELSE IF ~(0 < Cent(scale) /\ Cent(scale) < 100)
             THEN Fail(ParamErr("ValueError", "aliasing.scale_factor", "scale_factor"))
             ELSE Ok(Put(Put(p, "scale_factor", scale),
                         "downsample_factor", Recip(scale)))

\* The "[min, max]" handling shared by scratch (width_range/line_width) and
\* dirt (size_range/spot_size): single is the scalar key, range the list key.
RangeOrSingle(p, effect, single, range, dflt) ==
    IF Has(p, single)
    THEN LET v == p.dict[single]
         IN  IF ~IsNum(v) THEN Fail(NotNumErr(effect, single))
             ELSE LET w == I(IF ToInt(v) < 1 THEN 1 ELSE ToInt(v))
                  IN  Ok(Put(Put(p, single, w), range, L(<<w, w>>)))
    ELSE LET r == Get(p, range, dflt)
         IN  IF ~IsList(r) THEN Fail(ParamErr("TypeError", effect, range))
             ELSE IF Len(r.list) # 2 THEN Fail(ParamErr("ValueError", effect, range))
             ELSE IF ~IsNum(r.list[1]) \/ ~IsNum(r.list[2])
             THEN Fail(NotNumErr(effect, range))
             ELSE IF Cent(r.list[1]) > Cent(r.list[2])
             THEN Fail(ParamErr("ValueError", effect, range))
             ELSE LET lo == IF ToInt(r.list[1]) < 1 THEN 1 ELSE ToInt(r.list[1])
                      hi == IF ToInt(r.list[2]) < lo THEN lo ELSE ToInt(r.list[2])
                  IN  Ok(Put(Put(p, range, L(<<I(lo), I(hi)>>)), single, I(lo)))

ScratchValidate(p) ==
    LET Brightness(p2) ==
            LET b == Get(p2, "brightness", None)
            IN  IF IsNone(b)
                THEN Ok(Put(p2, "brightness",
                            I((255 * p2.dict["intensity"].flt) \div 100)))
                ELSE IF ~IsNum(b)
                THEN Fail(NotNumErr("scratch.brightness", "brightness"))
                ELSE Ok(Put(p2, "brightness", ClampInt(b, 0, 255)))
        Intensity(r1) ==
            IF ~r1.ok THEN r1
            ELSE LET it == Get(r1.params, "intensity", F(80))
                 IN  IF ~IsNum(it) THEN Fail(NotNumErr("scratch.intensity", "intensity"))
                     ELSE Brightness(Put(r1.params, "intensity", ClampFloat(it, 0, 100)))
        n == Get(p, "num_scratches", I(10))
    IN  IF ~IsNum(n) THEN Fail(NotNumErr("scratch.num_scratches", "num_scratches"))
        ELSE Intensity(RangeOrSingle(
                 Put(p, "num_scratches", I(IF ToInt(n) < 0 THEN 0 ELSE ToInt(n))),
                 "scratch.width", "line_width", "width_range", L(<<I(1), I(3)>>)))

Clamp255(n) == IF n < 0 THEN 0 ELSE IF n > 255 THEN 255 ELSE n

DirtValidate(p) ==
    LET SpotColor(p2) ==
            LET c == Get(p2, "spot_color", L(<<I(0), I(0), I(0)>>))
            IN  CASE IsStr(c) ->
                       IF Lower(c.str) \in DOMAIN color_map
                       THEN Ok(Put(p2, "spot_color",
                                   L([i \in 1..3 |-> I(color_map[Lower(c.str)][i])])))
                       ELSE Fail(ParamErr("ValueError", "dirt.spot_color", "spot_color"))
                  [] IsNum(c) ->
                       Ok(Put(p2, "spot_color",
                              L([i \in 1..3 |-> I(Clamp255(ToInt(c)))])))
                  [] IsList(c) ->
                       IF Len(c.list) # 3
                       THEN Fail(ParamErr("ValueError", "dirt.spot_color", "spot_color"))
                       ELSE IF \E i \in 1..3 : ~IsNum(c.list[i])
                       THEN Fail(NotNumErr("dirt.spot_color", "spot_color"))
                       ELSE Ok(Put(p2, "spot_color",
                                   L([i \in 1..3 |-> I(Clamp255(ToInt(c.list[i])))])))
                  [] OTHER -> Fail(ParamErr("TypeError", "dirt.spot_color", "spot_color"))
        Darkness(r1) ==
            IF ~r1.ok THEN r1
            ELSE LET dk == Get(r1.params, "darkness", F(60))
                 IN  IF ~IsNum(dk) THEN Fail(NotNumErr("dirt.darkness", "darkness"))
                     ELSE SpotColor(Put(r1.params, "darkness", ClampFloat(dk, 0, 100)))
        n == Get(p, "num_spots", I(5))
    IN  IF ~IsNum(n) THEN Fail(NotNumErr("dirt.num_spots", "num_spots"))
        ELSE Darkness(RangeOrSingle(
                 Put(p, "num_spots", I(IF ToInt(n) < 0 THEN 0 ELSE ToInt(n))),
                 "dirt.size", "spot_size", "size_range", L(<<I(5), I(20)>>)))

InterlaceValidate(p) ==
    LET it == Get(p, "intensity", F(50))
    IN  IF ~IsNum(it) THEN Fail(NotNumErr("interlace.intensity", "intensity"))
        ELSE Ok(Put(p, "intensity", NpClip(it, 0, 100)))

EdgeArtifactValidate(p) ==
    LET st == Get(p, "strength", F(50))
        k0 == Get(p, "kernel_size", I(3))
    IN  IF ~IsNum(st) THEN Fail(NotNumErr("edge_artifact.strength", "strength"))
        ELSE IF ~IsNum(k0) THEN Fail(NotNumErr("edge_artifact.kernel_size", "kernel_size"))
        ELSE LET k1 == IF ToInt(k0) <= 0 THEN 3 ELSE ToInt(k0)
                 k2 == IF k1 % 2 = 0 THEN k1 + 1 ELSE k1
             IN  Ok(Put(Put(p, "strength", ClampFloat(st, 0, 100)), "kernel_size", I(k2)))

MotionBlurValidate(p) ==
    LET ks == Get(p, "kernel_size", I(15))
        angle == Get(p, "angle", I(0))
    IN  IF ~IsNum(ks) THEN Fail(NotNumErr("motion_blur.kernel_size", "kernel_size"))
        ELSE IF ~IsNum(angle) THEN Fail(NotNumErr("motion_blur.angle", "angle"))
        ELSE Ok(Put(Put(p, "kernel_size", OddUp(ks)), "angle",
                    IF IsInt(angle) THEN I(angle.int % 360) ELSE F(angle.flt % 36000)))

FlickerValidate(p) ==
    LET r == Get(p, "range", L(<<F(50), F(150)>>))
        it == Get(p, "intensity", F(100))
        fr == Get(p, "frequency", F(500))
        am == Get(p, "amplitude", F(50))
    IN  IF ~IsList(r) THEN Fail(ParamErr("TypeError", "flicker.range", "range"))
        ELSE IF Len(r.list) # 2 THEN Fail(ParamErr("ValueError", "flicker.range", "range"))
        ELSE IF ~IsNum(r.list[1]) \/ ~IsNum(r.list[2])
        THEN Fail(NotNumErr("flicker.range", "range"))
        ELSE IF Cent(r.list[1]) >= Cent(r.list[2])
        THEN Fail(ParamErr("ValueError", "flicker.range", "range"))
        ELSE IF ~IsNum(it) THEN Fail(NotNumErr("flicker.intensity", "intensity"))
        ELSE IF ~IsNum(fr) THEN Fail(NotNumErr("flicker.frequency", "frequency"))
        ELSE IF Cent(fr) < 0
        THEN Fail(ParamErr("ValueError", "flicker.frequency", "frequency"))
        ELSE IF ~IsNum(am) THEN Fail(NotNumErr("flicker.amplitude", "amplitude"))
        ELSE IF Cent(am) < 0
        THEN Fail(ParamErr("ValueError", "flicker.amplitude", "amplitude"))
        ELSE Ok(Put(Put(Put(Put(p, "range", r), "intensity", ClampFloat(it, 0, 100)),
                        "frequency", F(Cent(fr))), "amplitude", F(Cent(am))))

\* A displacement is never refused.
DisplacementAlwaysFine(dp) == FALSE

\* "displacement = int(displacement); if displacement < 1"
DisplacementTooSmall(dp) == ToInt(dp) < 1

ShakeValidate(p) ==
    LET MixAndFrequency(p2) ==
            LET mw == Get(p2, "mix_weight", F(50))
                fr == Get(p2, "frequency", F(0))
            IN  IF ~IsNum(mw) THEN Fail(NotNumErr("shake.mix_weight", "mix_weight"))
                ELSE IF ~(0 < Cent(mw) /\ Cent(mw) < 100)
                THEN Fail(ParamErr("ValueError", "shake.mix_weight", "mix_weight"))
                ELSE IF ~IsNum(fr) THEN Fail(NotNumErr("shake.frequency", "frequency"))
                ELSE IF Cent(fr) < 0
                THEN Fail(ParamErr("ValueError", "shake.frequency", "frequency"))
                ELSE Ok(Put(Put(p2, "mix_weight", F(Cent(mw))), "frequency", F(Cent(fr))))
        Displacement(max_offset, p1) ==
            LET dp == Get(p1, "displacement", None)
            IN  IF ~IsNone(dp) /\ ~IsNum(dp)
                THEN Fail(NotNumErr("shake.displacement", "displacement"))
                ELSE IF ~IsNone(dp) /\ DisplacementTooSmall(dp)
                THEN Fail(ParamErr("ValueError", "shake.displacement", "displacement"))
                ELSE MixAndFrequency(
                         IF ~IsNone(dp)
                         THEN Put(Put(p1, "displacement", I(ToInt(dp))),
                                  "max_offset", I(ToInt(dp)))
                         ELSE Put(p1, "displacement", max_offset))
        mo == Get(p, "max_offset", I(5))
    IN  IF ~IsNum(mo) THEN Fail(NotNumErr("shake.max_offset", "max_offset"))
        ELSE IF ToInt(mo) < 1
        THEN Fail(ParamErr("ValueError", "shake.max_offset", "max_offset"))
        ELSE Displacement(I(ToInt(mo)), Put(p, "max_offset", I(ToInt(mo))))

\* Stage1Degradation.validate_params and Stage2Degradation.validate_params:
\* every sub-effect entry given must be a mapping; Stage2 also checks some
\* fields of the entries.
StageValidate(cls, p) ==
    LET NotDict(k) == Has(p, k) /\ ~IsDict(p.dict[k])
        Checked(k, f) == cls = "Stage2" /\ Has(p, k) /\ Has(p.dict[k], f)
        Field(k, f) == p.dict[k].dict[f]
        Bad(site, k) == Fail(ParamErr("ValueError", site, k))
    IN  IF NotDict("blur") THEN Bad("stage.not_dict", "blur")
        ELSE IF Checked("blur", "kernel_size") /\ ~IsNum(Field("blur", "kernel_size"))
        THEN Fail(NotNumErr("stage2.blur.kernel_size", "blur"))
        ELSE IF Checked("blur", "kernel_size")
                /\ Cent(Field("blur", "kernel_size")) % 200 = 0
        THEN Bad("stage2.blur.kernel_size", "blur")
        ELSE IF NotDict("resample") THEN Bad("stage.not_dict", "resample")
        ELSE IF Checked("resample", "width") /\ ~IsNum(Field("resample", "width"))
        THEN Fail(NotNumErr("stage2.resample.width", "resample"))
        ELSE IF Checked("resample", "width") /\ Cent(Field("resample", "width")) < 16000
        THEN Bad("stage2.resample.width", "resample")
        ELSE IF Checked("resample", "height") /\ ~IsNum(Field("resample", "height"))
        THEN Fail(NotNumErr("stage2.resample.height", "resample"))
        ELSE IF Checked("resample", "height") /\ Cent(Field("resample", "height")) < 9000
        THEN Bad("stage2.resample.height", "resample")
        ELSE IF NotDict("noise") THEN Bad("stage.not_dict", "noise")
        ELSE IF Checked("noise", "type")
                /\ Field("noise", "type") \notin {S("gaussian"), S("salt_pepper"), S("poisson")}
        THEN Bad("stage2.noise.type", "noise")
        ELSE IF NotDict("compression") THEN Bad("stage.not_dict", "compression")
        ELSE IF Checked("compression", "quality")
                /\ ~IsNum(Field("compression", "quality"))
        THEN Fail(NotNumErr("stage2.compression.quality", "compression"))
        ELSE IF Checked("compression", "quality")
                /\ ~(1000 <= Cent(Field("compression", "quality"))
                     /\ Cent(Field("compression", "quality")) <= 7000)
        THEN Bad("stage2.compression.quality", "compression")
        ELSE Ok(p)

\* The keys of SUPPORTED_DEGRADATIONS in stage3_degradation.py.
SUPPORTED_DEGRADATIONS ==
    {"aliasing", "scratch", "dirt", "interlace", "edge_artifact", "motion_blur",
     "flicker", "shake"}

Stage3SupportedAnyName(v) == IsStr(v)

\* v is a key of SUPPORTED_DEGRADATIONS.
Stage3Supported(v) == IsStr(v) /\ v.str \in SUPPORTED_DEGRADATIONS

\* Stage3Degradation.validate_params: a degradation_type must be given and
\* be a key of SUPPORTED_DEGRADATIONS (a list or mapping cannot be looked
\* up: TypeError); 'params', when given, must be a mapping.
Stage3Validate(p) ==
    IF ~Has(p, "degradation_type")
    THEN Fail(ParamErr("ValueError", "stage3.no_degradation_type", "degradation_type"))
    ELSE IF IsList(p.dict["degradation_type"]) \/ IsDict(p.dict["degradation_type"])
    THEN Fail(ParamErr("TypeError", "stage3.unhashable_type", "degradation_type"))
    ELSE IF ~Stage3Supported(p.dict["degradation_type"])
    THEN Fail(ParamErr("ValueError", "stage3.unsupported_type", "degradation_type"))
    ELSE IF Has(p, "params") /\ ~IsDict(p.dict["params"])
    THEN Fail(ParamErr("ValueError", "stage3.params_not_dict", "params"))
    ELSE Ok(p)

validate_params(cls, p) ==
    CASE cls \in {"Stage1", "Stage2"} -> StageValidate(cls, p)
      [] cls = "Stage3" -> Stage3Validate(p)
      [] cls = "blur" -> BlurValidate(p)
      [] cls = "noise" -> NoiseValidate(p)
      [] cls = "resample" -> ResampleValidate(p)
      [] cls = "compression" -> CompressionValidate(p)
      [] cls = "aliasing" -> AliasingValidate(p)
      [] cls = "scratch" -> ScratchValidate(p)
      [] cls = "dirt" -> DirtValidate(p)
      [] cls = "interlace" -> InterlaceValidate(p)
      [] cls = "edge_artifact" -> EdgeArtifactValidate(p)
      [] cls = "motion_blur" -> MotionBlurValidate(p)
      [] cls = "flicker" -> FlickerValidate(p)
      [] cls = "shake" -> ShakeValidate(p)

\* A common check without the allow-list loop.
CommonParamValidationNoAllowList(cls, p) ==
    IF ~IsDict(p) THEN Fail(Err("TypeError", "common.not_dict")) ELSE Ok(p)

\* BaseDegradation._common_param_validation: params must be a mapping and
\* every key must be on the effect's allow-list (first offender reported).
CommonParamValidation(cls, p) ==
    IF ~IsDict(p) THEN Fail(Err("TypeError", "common.not_dict"))
    ELSE LET bad == {i \in 1..Len(p.keys) : p.keys[i] \notin RangeOf(allowed_params[cls])}
         IN  IF bad = {} THEN Ok(p)
             ELSE Fail(ParamErr("ValueError", "common.unsupported_param",
                                p.keys[CHOOSE i \in bad : \A j \in bad : i <= j]))

\* The effects that keep a frame counter.
Gated == {"flicker", "shake"}

\* BaseDegradation.__init__ (and the __init__ of flicker and shake): the
\* effect instance, or the error the constructor raises.
Construct(cls, raw) ==
    LET Instance(v) ==
            IF ~v.ok THEN [ok |-> FALSE, err |-> v.err, eff |-> [cls |-> cls]]
            ELSE [ok |-> TRUE, err |-> NoErr,
                  eff |-> IF cls \in Gated
                          THEN [cls |-> cls, params |-> v.params, frame_counter |-> 0]
                          ELSE [cls |-> cls, params |-> v.params]]
        Validate(c) == Instance(IF c.ok THEN validate_params(cls, c.params) ELSE c)
    IN  Validate(CommonParamValidation(cls, IF Truthy(raw) THEN raw ELSE EmptyDict))

(***************************************************************************)
(* Frames and the transforms (apply) of the twelve effects.                *)
(*                                                                         *)
(* An outcome of a call is [kind, frame, eff, err]: kind is "ok" (frame is *)
(* the returned array), "none" (the call returned None) or "raise" (err is *)
(* the exception); eff is the effect instance after the call.              *)
(***************************************************************************)
\* unit: the array is a float array whose maximum is at most 1.0.
Frame(shape, dtype) == [shape |-> shape, dtype |-> dtype, unit |-> FALSE, hist |-> <<>>]

UnitFrame(shape, dtype) == [Frame(shape, dtype) EXCEPT !.unit = TRUE]

NoFrame == Frame(<<>>, "none")

\* A value that is not a numpy array (a Python list of rows).
NotAnArray == Frame(<<>>, "pylist")

Rank(fr) == Len(fr.shape)

\* The transform changed the content of the frame.
Touch(fr, cls) == [fr EXCEPT !.hist = Append(@, cls)]

AsType(fr, dtype) == [fr EXCEPT !.dtype = dtype, !.unit = FALSE]

\* A zero-size array: np.max raises on it.
ZeroSize(fr) == \E i \in 1..Rank(fr) : fr.shape[i] = 0

Returns(fr, eff) == [kind |-> "ok", frame |-> fr, eff |-> eff, err |-> NoErr]

Raises(e, eff) == [kind |-> "raise", frame |-> NoFrame, eff |-> eff, err |-> e]

\* An H x W x 3 array of 8-bit values: what the OpenCV calls of the effects
\* are written for.  On any other array the library call either works or
\* raises cv2.error.
IsRgb8(fr) == Rank(fr) = 3 /\ fr.shape[3] = 3 /\ fr.dtype = "uint8" /\ ~ZeroSize(fr)

Cv2Call(fr, eff, out) ==
    IF IsRgb8(fr) THEN {Returns(out, eff)}
    ELSE {Returns(out, eff), Raises(Err("cv2.error", "cv2"), eff)}

\* "h, w = data.shape[:2]"
UnpackErr(eff) == Raises(Err("ValueError", "shape_unpack"), eff)

\* flicker: max(1, int(30 / (frequency + 1e-6))), frequency in hundredths.
FlickerInterval(c) ==
    IF c = 0 THEN 30000000
    ELSE LET q == IF 3000 % c = 0 THEN (3000 \div c) - 1 ELSE 3000 \div c
         IN  IF q < 1 THEN 1 ELSE q

\* shake: max(1, int(30 / frequency)) for frequency > 0.
ShakeInterval(c) == IF 3000 \div c < 1 THEN 1 ELSE 3000 \div c

\* A counter that advances by two.
TickTwice(eff) == [eff EXCEPT !.frame_counter = @ + 2]

\* A counter that is put back to 0 after every frame.
TickReset(eff) == [eff EXCEPT !.frame_counter = 0]

\* "self.frame_counter += 1"
Tick(eff) == [eff EXCEPT !.frame_counter = @ + 1]

FlickerApply(eff, fr) ==
    IF Rank(fr) < 2 THEN {UnpackErr(eff)}
    ELSE IF (fr.shape[2] * 3) \div 10 = 0 \/ (fr.shape[1] * 3) \div 10 = 0
    THEN {Raises(Err("ValueError", "flicker.randint"), eff)}
    ELSE LET should_flicker ==
                 eff.frame_counter % FlickerInterval(eff.params.dict["frequency"].flt) = 0
         IN  {Returns(AsType(IF should_flicker THEN Touch(fr, "flicker") ELSE fr, "uint8"),
                      Tick(eff))}

ShakeApply(eff, fr) ==
    IF Rank(fr) < 2 THEN {UnpackErr(eff)}
    ELSE LET frequency == eff.params.dict["frequency"].flt
             should_jitter ==
                 IF frequency > 0
                 THEN eff.frame_counter % ShakeInterval(frequency) = 0
                 ELSE TRUE
         IN  IF ~should_jitter THEN {Returns(fr, Tick(eff))}
             ELSE {IF o.kind = "ok" THEN [o EXCEPT !.eff = Tick(eff)] ELSE o :
                     o \in Cv2Call(fr, eff, Touch(fr, "shake"))}

NoiseApply(eff, fr) ==
    IF Rank(fr) # 3 \/ fr.shape[3] # 3
    THEN {Raises(Err("ValueError", "noise.shape"), eff)}
    ELSE {Returns(AsType(Touch(fr, "noise"), "uint8"), eff)}

InterlaceApply(eff, fr) ==
    IF Rank(fr) < 1 THEN {Raises(Err("IndexError", "interlace.rows"), eff)}
    ELSE {Returns(AsType(Touch(fr, "interlace"), "uint8"), eff)}

BlurApply(eff, fr) == Cv2Call(fr, eff, Touch(fr, "blur"))

ResampleApply(eff, fr) ==
    IF Rank(fr) < 2 THEN {UnpackErr(eff)}
    ELSE Cv2Call(fr, eff, Touch(fr, "resample"))

AliasingApply(eff, fr) ==
    IF Rank(fr) < 2 THEN {UnpackErr(eff)}
    ELSE Cv2Call(fr, eff, Touch(fr, "aliasing"))

EdgeArtifactApply(eff, fr) ==
    Cv2Call(fr, eff, AsType(Touch(fr, "edge_artifact"), "uint8"))

\* np.zeros((kernel_size, kernel_size)) needs a non-negative integer.
MotionBlurApply(eff, fr) ==
    LET ks == eff.params.dict["kernel_size"]
    IN  IF ~IsInt(ks) THEN {Raises(Err("TypeError", "motion_blur.kernel"), eff)}
        ELSE IF ks.int < 0 THEN {Raises(Err("ValueError", "motion_blur.kernel"), eff)}
        ELSE Cv2Call(fr, eff, Touch(fr, "motion_blur"))

\* scratch and dirt draw count marks on a copy of the frame.
DrawApply(eff, fr, count) ==
    IF Rank(fr) < 2 THEN {UnpackErr(eff)}
    ELSE IF eff.params.dict[count].int = 0 THEN {Returns(fr, eff)}
    ELSE Cv2Call(fr, eff, Touch(fr, eff.cls))

\* The codec round trip of the image formats: failures inside the try block
\* are re-raised as RuntimeError with the cause chained.
ImageCompression(eff, fr) ==
    IF Rank(fr) \notin {2, 3}
    THEN {Raises(Err("ValueError", "compression.image_rank"), eff)}
    ELSE {IF o.kind = "ok" THEN o
          ELSE Raises([Err("RuntimeError", "compression.image") EXCEPT !.cause = o.err],
                      eff) :
            o \in Cv2Call(fr, eff, AsType(Touch(fr, "compression"), "uint8"))}

\* The video formats go through an external encoder (ffmpeg): the round
\* trip may fail for reasons outside the program, and it yields M >= 0
\* frames that are padded or cut to the N of the input.
VideoCompression(eff, fr) ==
    IF Rank(fr) = 3 /\ fr.shape[3] # 3
    THEN {Raises(Err("ValueError", "compression.video_channels"), eff)}
    ELSE IF Rank(fr) \notin {3, 4} \/ fr.shape[Rank(fr)] # 3
    THEN {Raises(Err("ValueError", "compression.video_rank"), eff)}
    ELSE {Returns(AsType(Touch(fr, "compression"), "uint8"), eff),
          Raises([Err("RuntimeError", "compression.video")
                    EXCEPT !.cause = Err("RuntimeError", "ffmpeg")], eff)}

CompressionApply(eff, fr) ==
    IF SUPPORTED_FORMATS[eff.params.dict["format"].str].type = "image"
    THEN ImageCompression(eff, fr)
    ELSE VideoCompression(eff, fr)

\* deg.apply(data): the set of outcomes of the transform of effect eff.
EffectApply(eff, fr) ==
    CASE eff.cls = "blur" -> BlurApply(eff, fr)
      [] eff.cls = "noise" -> NoiseApply(eff, fr)
      [] eff.cls = "resample" -> ResampleApply(eff, fr)
      [] eff.cls = "compression" -> CompressionApply(eff, fr)
      [] eff.cls = "aliasing" -> AliasingApply(eff, fr)
      [] eff.cls = "scratch" -> DrawApply(eff, fr, "num_scratches")
      [] eff.cls = "dirt" -> DrawApply(eff, fr, "num_spots")
      [] eff.cls = "interlace" -> InterlaceApply(eff, fr)
      [] eff.cls = "edge_artifact" -> EdgeArtifactApply(eff, fr)
      [] eff.cls = "motion_blur" -> MotionBlurApply(eff, fr)
      [] eff.cls = "flicker" -> FlickerApply(eff, fr)
      [] eff.cls = "shake" -> ShakeApply(eff, fr)

(***************************************************************************)
(* DegradationPipeline construction.                                       *)
(***************************************************************************)
\* How a name appears in a message.
NameText(v) == IF IsStr(v) THEN v.str ELSE "<non-string>"

\* "name in DEGRADATION_CLASSES": an exact match on the registry's keys.
IsRegistered(v) == IsStr(v) /\ v.str \in DEGRADATION_CLASSES

\* "不支持的退化类型: ...，支持的类型: [all keys]"
UnknownTypeErr(site, v) ==
    [Err("ValueError", site) EXCEPT !.name = NameText(v), !.listed = DEGRADATION_CLASSES]

\* A lookup that also resolves the prefix "blu" to blur.
load_degradation_class_prefix(v) ==
    IF IsStr(v) /\ v.str = "blu" THEN [ok |-> TRUE, cls |-> "blur", err |-> NoErr]
    ELSE IF IsRegistered(v) THEN [ok |-> TRUE, cls |-> v.str, err |-> NoErr]
    ELSE [ok |-> FALSE, cls |-> "", err |-> UnknownTypeErr("load.unknown_type", v)]

load_degradation_class(v) ==
    IF IsRegistered(v) THEN [ok |-> TRUE, cls |-> v.str, err |-> NoErr]
    ELSE [ok |-> FALSE, cls |-> "", err |-> UnknownTypeErr("load.unknown_type", v)]

\* An unwrapping that goes on while the mapping holds only 'params'.
RECURSIVE UnwrapDeep(_)
UnwrapDeep(p) ==
    IF IsDict(p) /\ Has(p, "params") /\ Len(p.keys) = 1 THEN UnwrapDeep(p.dict["params"])
    ELSE p

\* The one-level unwrapping of a params mapping that holds only 'params'.
Unwrap(p) ==
    IF IsDict(p) /\ Has(p, "params") /\ Len(p.keys) = 1 THEN p.dict["params"] ELSE p

\* "加载退化处理'<name>'失败: <str(e)>": names the entry's effect and embeds
\* the text of the cause.
LoadFailedErr(deg_type, e) ==
    [Err("ValueError", "pipeline.load_failed")
       EXCEPT !.name = NameText(deg_type), !.key = e.key, !.listed = e.listed,
              !.pos = e.pos, !.cause = e]

\* load_degradation_class(t)(actual_params), appended to degs.
LoadOne(t, actual_params, degs) ==
    LET Loaded(k) ==
            IF k.ok THEN [ok |-> TRUE, degs |-> Append(degs, k.eff), err |-> NoErr]
            ELSE [ok |-> FALSE, degs |-> degs, err |-> k.err]
        Instantiate(c) ==
            Loaded(IF c.ok THEN Construct(c.cls, actual_params)
                   ELSE [ok |-> FALSE, err |-> c.err, eff |-> [cls |-> ""]])
    IN  Instantiate(load_degradation_class(t))

\* The order blur, resample, noise, compression.
FixedOrder == <<"blur", "resample", "noise", "compression">>

\* The keys of the params mapping put in the fixed order (other keys last).
SubTypesFixedOrder(deg_params) ==
    SelectSeq(FixedOrder, LAMBDA k : Has(deg_params, k))
    \o SelectSeq(deg_params.keys, LAMBDA k : k \notin RangeOf(FixedOrder))

\* "for sub_type, sub_params in deg_params.items()": the keys in the
\* iteration order of the mapping.
SubTypes(deg_params) == deg_params.keys

\* The loop over the sub-effects of a 'composite' entry.
RECURSIVE LoadSubs(_, _, _)
LoadSubs(deg_params, i, degs) ==
    IF i > Len(SubTypes(deg_params)) THEN [ok |-> TRUE, degs |-> degs, err |-> NoErr]
    ELSE LET sub_type == SubTypes(deg_params)[i]
             sub_params == deg_params.dict[sub_type]
             Continue(r) == IF r.ok THEN LoadSubs(deg_params, i + 1, r.degs) ELSE r
         IN  IF ~IsRegistered(S(sub_type))
             THEN [ok |-> FALSE, degs |-> degs,
                   err |-> UnknownTypeErr("pipeline.unknown_sub_type", S(sub_type))]
             ELSE Continue(LoadOne(S(sub_type), Unwrap(sub_params), degs))

\* One iteration of the loop of _validate_and_load_degradations; idx is the
\* 0-based index of enumerate().
LoadEntry(idx, config, degs) ==
    IF ~IsDict(config)
    THEN [ok |-> FALSE, degs |-> degs,
          err |-> [Err("ValueError", "pipeline.entry_not_dict") EXCEPT !.pos = idx + 1]]
    ELSE IF ~Has(config, "name")
    THEN [ok |-> FALSE, degs |-> degs,
          err |-> [Err("ValueError", "pipeline.missing_name") EXCEPT !.pos = idx + 1]]
    ELSE
    LET deg_type == config.dict["name"]
        deg_params == Get(config, "params", EmptyDict)
        Wrapped(r) == IF r.ok THEN r
                      ELSE [r EXCEPT !.err = LoadFailedErr(deg_type, r.err)]
    IN  IF ~IsDict(deg_params)
        THEN [ok |-> FALSE, degs |-> degs,
              err |-> [Err("ValueError", "pipeline.params_not_dict")
                         EXCEPT !.name = NameText(deg_type)]]
        ELSE Wrapped(IF deg_type = S("composite")
                     THEN LoadSubs(deg_params, 1, degs)
                     ELSE LoadOne(deg_type, Unwrap(deg_params), degs))

RECURSIVE LoadFrom(_, _, _)
LoadFrom(entries, i, degs) ==
    IF i > Len(entries) THEN [ok |-> TRUE, degs |-> degs, err |-> NoErr]
    ELSE LET Continue(r) == IF r.ok THEN LoadFrom(entries, i + 1, r.degs) ELSE r
         IN  Continue(LoadEntry(i - 1, entries[i], degs))

\* DegradationPipeline(degradation_configs): the list of effect instances,
\* or the error that leaves no pipeline object.
validate_and_load_degradations(cfgs) ==
    IF ~IsList(cfgs)
    THEN [ok |-> FALSE, degs |-> <<>>, err |-> Err("ValueError", "pipeline.not_list")]
    ELSE LoadFrom(cfgs.list, 1, <<>>)

(***************************************************************************)
(* Inputs: configuration entries, frames and media.                        *)
(***************************************************************************)
Entry(name, params) == Dict(<<<<"name", S(name)>>, <<"params", params>>>>)

NameOnly(name) == Dict(<<<<"name", S(name)>>>>)

E_noise == NameOnly("noise")

E_flicker == Entry("flicker", Dict(<<<<"frequency", I(10)>>>>))

E_shake == Entry("shake", Dict(<<<<"frequency", I(15)>>>>))

E_video_compression == Entry("compression", Dict(<<<<"format", S("H264")>>>>))

E_composite ==
    Entry("composite", Dict(<<<<"noise", EmptyDict>>,
                              <<"blur", Dict(<<<<"kernel_size", I(4)>>>>)>>>>))

E_wrapped == Entry("interlace", Dict(<<<<"params", Dict(<<<<"intensity", I(2)>>>>)>>>>))

E_unknown == NameOnly("not_a_real_effect")

E_partial == NameOnly("blu")

E_params_not_dict == Entry("blur", S("kernel_size=5"))

E_unknown_params_not_dict == Entry("not_a_real_effect", I(5))

E_bad_key == Entry("resample", Dict(<<<<"bogus", I(1)>>>>))

E_bad_value == Entry("shake", Dict(<<<<"displacement", I(0)>>>>))

E_not_dict == S("blur")

E_no_name == Dict(<<<<"params", EmptyDict>>>>)

E_composite_unknown ==
    Entry("composite", Dict(<<<<"blur", EmptyDict>>, <<"sharpen", EmptyDict>>>>))

ValidEntries ==
    {E_noise, E_flicker, E_shake, E_video_compression, E_composite, E_wrapped}

InvalidEntries ==
    {E_unknown, E_partial, E_params_not_dict, E_unknown_params_not_dict,
     E_bad_key, E_bad_value, E_not_dict, E_no_name, E_composite_unknown}

EntryPool == ValidEntries \cup InvalidEntries

\* Entries whose params mapping wraps the parameters: twice in 'params',
\* and once in a {name, params}-shaped mapping.
E_double_wrapped ==
    Entry("interlace",
          Dict(<<<<"params", Dict(<<<<"params", Dict(<<<<"intensity", I(2)>>>>)>>>>)>>>>))

E_name_params ==
    Entry("interlace", Dict(<<<<"name", S("interlace")>>,
                              <<"params", Dict(<<<<"intensity", I(2)>>>>)>>>>))

\* A 'composite' entry whose sub-effect parameters are wrapped once, and
\* one with a sub-effect wrapped twice.
E_composite_wrapped ==
    Entry("composite",
          Dict(<<<<"noise", Dict(<<<<"params", EmptyDict>>>>)>>,
                 <<"interlace", Dict(<<<<"params", Dict(<<<<"intensity", I(2)>>>>)>>>>)>>>>))

E_composite_double_wrapped ==
    Entry("composite",
          Dict(<<<<"interlace",
                   Dict(<<<<"params",
                            Dict(<<<<"params", Dict(<<<<"intensity", I(2)>>>>)>>>>)>>>>)>>>>))

\* Salt-and-pepper noise with a density of 5 percent.
E_salt_pepper ==
    Entry("noise", Dict(<<<<"noise_type", S(ZhSaltPepperNoise)>>, <<"density", I(5)>>>>))

\* Configuration lists with these entries.
ShapedConfigs ==
    {L(<<E_double_wrapped>>), L(<<E_name_params>>), L(<<E_flicker, E_name_params>>),
     L(<<E_wrapped, E_double_wrapped>>), L(<<E_composite_wrapped>>),
     L(<<E_composite_double_wrapped>>), L(<<E_salt_pepper>>),
     L(<<E_salt_pepper, E_flicker>>)}

\* Lists of at most n entries.
RECURSIVE ListsUpTo(_)
ListsUpTo(n) ==
    IF n = 0 THEN {<<>>}
    ELSE LET shorter == ListsUpTo(n - 1)
         IN  shorter \cup {Append(q, e) : q \in {x \in shorter : Len(x) = n - 1},
                                          e \in EntryPool}

\* What a caller may hand to the constructor: a list, or by mistake a
\* single entry.
ConfigInputs == {L(q) : q \in ListsUpTo(MaxConfigs)} \cup {E_noise} \cup ShapedConfigs

\* The frame the media adapters produce (cv2.imread / VideoCapture.read
\* followed by cvtColor): H x W x 3, 8-bit.
MediaFrame == Frame(<<8, 8, 3>>, "uint8")

\* Frames a caller may hand to DegradationPipeline.apply directly.
ApiFrames ==
    {MediaFrame,
     Frame(<<2, 8, 8, 3>>, "uint8"),
     Frame(<<8, 8>>, "int32")}

MediaTypes == {"image", "video", "Video", "audio"}

\* str.lower() of a media type.
LowerMedia(s) == IF s = "Video" THEN "video" ELSE s

(***************************************************************************)
(* State.                                                                  *)
(*   configs   the configuration list the pipeline was built from          *)
(*   pipeline  the DegradationPipeline object: status "none" (never        *)
(*             constructed), "built", or "failed" (the constructor raised  *)
(*             err and no object exists); degradations is the list of      *)
(*             effect instances, returned[j] the number of apply calls of  *)
(*             instance j that returned                                    *)
(*   call      the current/last DegradationPipeline.apply call: pc, the    *)
(*             1-based index of the effect to invoke next, the input       *)
(*             (data), the threaded value (result), the log of effect      *)
(*             invocations and the propagated error                        *)
(*   applies   number of apply calls made directly by the caller           *)
(*   demo      the run of composite_main_demo                              *)
(*   proc      the current/last BaseDegradation.process call               *)
(*   ctor      the current/last construction of one effect by a caller     *)
(*   stage     a Stage1Degradation or Stage2Degradation object and the     *)
(*             current/last call of its apply                              *)
(*   stage3    a Stage3Degradation object and the current/last call of its *)
(*             apply                                                       *)
(*   other     a second DegradationPipeline object, constructed from the   *)
(*             configuration list object the first was built from          *)
(*   vc        the current/last call of                                    *)
(*             CompressionDegradation._apply_video_compression: n the      *)
(*             number of input frames, single whether the input was one    *)
(*             rank-3 frame, codec the frames read back from the encoder,  *)
(*             out and rank the returned array                             *)
(*   smain     the run of single_main_demo: its arguments, the parameters  *)
(*             validate_degradation_params returned, the effect instance,  *)
(*             the frames to process (n) and processed (i), and the result *)
(*             (status, err)                                               *)
(***************************************************************************)
VARIABLES configs, pipeline, call, applies, demo, proc, ctor, stage, stage3, other,
          vc, smain

vars ==
    <<configs, pipeline, call, applies, demo, proc, ctor, stage, stage3, other, vc,
      smain>>

IdleCall ==
    [pc |-> "idle", idx |-> 0, data |-> NoFrame, result |-> NoFrame, log |-> <<>>,
     err |-> NoErr]

IdleDemo ==
    [pc |-> "idle", media_type |-> "", frames |-> <<>>, i |-> 0, processed |-> <<>>,
     loaded |-> FALSE, given |-> 0, err |-> NoErr]

IdleProc ==
    [pc |-> "idle", eff |-> [cls |-> ""], data |-> NoFrame, cur |-> NoFrame,
     phases |-> <<>>, failed |-> "", err |-> NoErr]

\* No effect is being constructed.  given is the argument of the constructor,
\* params the contents of self.params, second the outcome of constructing a
\* further effect of the same class from that mapping.
IdleCtor ==
    [pc |-> "idle", cls |-> "", given |-> None, params |-> None, phase |-> "",
     err |-> NoErr, second |-> None]

\* No stage object exists.  cls is "Stage1" or "Stage2", subs the attributes
\* _blur, _resample, _noise, _compression (None until initialised), calls
\* the number of apply calls made, idx the sub-effect to invoke next, data
\* the argument of the call, cur the value handed on, log the sub-effect
\* invocations of the call, result what the call returned; flags[i] is the
\* media type sub-effect i carries and made[i] the number of times slot i
\* was given a newly constructed sub-effect.
NoStage ==
    [pc |-> "none", cls |-> "", params |-> None, media_type |-> None,
     subs |-> <<None, None, None, None>>, flags |-> <<None, None, None, None>>,
     made |-> <<0, 0, 0, 0>>, calls |-> 0, idx |-> 0, data |-> NoFrame,
     cur |-> NoFrame, log |-> <<>>, result |-> NoFrame, err |-> NoErr]

\* No Stage3Degradation object. degradation_type and degrader are the
\* attributes _degradation_type and _degrader, flag the media type the
\* degrader carries, made the number of effects constructed for _degrader,
\* given the argument of the constructor.
NoStage3 ==
    [pc |-> "none", given |-> None, params |-> None, media_type |-> None, degradation_type |-> None,
     degrader |-> None, flag |-> None, made |-> 0, calls |-> 0, data |-> NoFrame,
     result |-> NoFrame, err |-> NoErr]

\* No second pipeline.
NoOther == [status |-> "none", degradations |-> <<>>, err |-> NoErr]

IdleVc ==
    [pc |-> "idle", n |-> 0, single |-> FALSE, codec |-> <<>>, out |-> <<>>,
     rank |-> 0, err |-> NoErr]

IdleSmain ==
    [pc |-> "idle", media_type |-> "", degradation_type |-> "", given |-> None,
     validated_params |-> None, eff |-> None, n |-> 0, i |-> 0, status |-> "",
     err |-> NoErr]

NoPipeline == [status |-> "none", degradations |-> <<>>, returned |-> <<>>, err |-> NoErr]

Init ==
    /\ configs = None
    /\ pipeline = NoPipeline
    /\ call = IdleCall
    /\ applies = 0
    /\ demo = IdleDemo
    /\ proc = IdleProc
    /\ ctor = IdleCtor
    /\ stage = NoStage
    /\ stage3 = NoStage3
    /\ other = NoOther
    /\ vc = IdleVc
    /\ smain = IdleSmain

\* The object state after DegradationPipeline(cfgs).
Constructed(cfgs) ==
    LET Object(r) ==
            IF r.ok THEN [status |-> "built", degradations |-> r.degs,
                          returned |-> [j \in 1..Len(r.degs) |-> 0], err |-> NoErr]
            ELSE [status |-> "failed", degradations |-> <<>>, returned |-> <<>>,
                  err |-> r.err]
    IN  Object(validate_and_load_degradations(cfgs))

\* A caller constructs DegradationPipeline(cfgs) directly.
NewPipeline ==
    /\ pipeline.status = "none"
    /\ demo.pc = "idle"
    /\ proc.pc = "idle"
    /\ ctor.pc = "idle"
    /\ vc.pc = "idle"
    /\ smain.pc = "idle"
    /\ stage.pc = "none"
    /\ stage3.pc = "none"
    /\ \E cfgs \in ConfigInputs :
         /\ configs' = cfgs
         /\ pipeline' = Constructed(cfgs)
    /\ UNCHANGED <<call, applies, demo, proc, ctor, stage, stage3, other, vc, smain>>

(***************************************************************************)
(* DegradationPipeline.apply, one effect invocation per step.              *)
(***************************************************************************)
\* Entry of apply(data): result = data, then the loop over the effects.
BeginCall(fr) ==
    [pc |-> IF Len(pipeline.degradations) = 0 THEN "returned" ELSE "running",
     idx |-> 1, data |-> fr, result |-> fr, log |-> <<>>, err |-> NoErr]

\* A loop that hands every effect the caller's frame instead of the
\* previous effect's output.
ThreadedInputUnthreaded(c) == c.data

\* The argument of deg.apply(...) in the loop: the previous effect's output.
ThreadedInput(c) == c.result

\* "第{idx}个退化处理({class name})返回空结果"
EmptyResultErr(idx, eff) ==
    [Err("RuntimeError", "apply.empty_result")
       EXCEPT !.pos = idx, !.name = ClassNames[eff.cls]]

\* The wrapping error with the 0-based index of the effect.
ApplyFailedErrZeroBased(idx, eff, e) ==
    [Err("RuntimeError", "apply.failed")
       EXCEPT !.pos = idx - 1, !.name = ClassNames[eff.cls], !.cause = e]

\* "第{idx}个退化处理({class name})执行失败" raised from e.
ApplyFailedErr(idx, eff, e) ==
    [Err("RuntimeError", "apply.failed")
       EXCEPT !.pos = idx, !.name = ClassNames[eff.cls], !.cause = e]

\* The call after the effect at c.idx produced outcome o.
AfterOutcome(c, eff, o) ==
    LET entry == [idx |-> c.idx, cls |-> eff.cls, kind |-> o.kind,
                  changed |-> o.kind = "ok" /\ o.frame.hist # ThreadedInput(c).hist]
        log == Append(c.log, entry)
    IN  CASE o.kind = "ok" ->
               [c EXCEPT !.result = o.frame, !.log = log,
                         !.idx = @ + 1,
                         !.pc = IF c.idx = Len(pipeline.degradations)
                                THEN "returned" ELSE "running"]
          [] o.kind = "none" ->
               [c EXCEPT !.result = NoFrame, !.log = log, !.pc = "raised",
                         !.err = ApplyFailedErr(c.idx, eff, EmptyResultErr(c.idx, eff))]
          [] o.kind = "raise" ->
               [c EXCEPT !.result = NoFrame, !.log = log, !.pc = "raised",
                         !.err = ApplyFailedErr(c.idx, eff, o.err)]

\* One iteration of the loop of apply: invoke the effect at call.idx.
ApplyStep ==
    /\ call.pc = "running"
    /\ LET eff == pipeline.degradations[call.idx]
       IN  \E o \in EffectApply(eff, ThreadedInput(call)) :
             /\ call' = AfterOutcome(call, eff, o)
             /\ pipeline' = [pipeline EXCEPT !.degradations[call.idx] = o.eff,
                                             !.returned[call.idx] =
                                                 IF o.kind = "ok" THEN @ + 1 ELSE @]
    /\ UNCHANGED <<configs, applies, demo, proc, ctor, stage, stage3, other, vc, smain>>

\* A caller invokes pipeline.apply(fr) on a pipeline it constructed.
Apply ==
    /\ pipeline.status = "built"
    /\ demo.pc = "idle"
    /\ call.pc # "running"
    /\ applies < MaxApplies
    /\ \E fr \in ApiFrames : call' = BeginCall(fr)
    /\ applies' = applies + 1
    /\ UNCHANGED <<configs, pipeline, demo, proc, ctor, stage, stage3, other, vc, smain>>

(***************************************************************************)
(* composite_main_demo and the media loops it drives.                      *)
(***************************************************************************)
\* A minimum of one configured stage.
EnoughConfigsOne(n) == n >= 1

\* "if len(degradation_configs) < 2: raise"
EnoughConfigs(n) == n >= 2

DemoRaised(e) == [demo EXCEPT !.pc = "raised", !.err = e]

\* composite_main_demo up to and including the construction of the
\* pipeline.  exists: the media file exists.
DemoStart ==
    /\ demo.pc = "idle"
    /\ pipeline.status = "none"
    /\ proc.pc = "idle"
    /\ ctor.pc = "idle"
    /\ vc.pc = "idle"
    /\ smain.pc = "idle"
    /\ stage.pc = "none"
    /\ stage3.pc = "none"
    /\ \E exists \in BOOLEAN, media_type \in MediaTypes,
          first_config \in EntryPool \cup {None},
          second_config \in EntryPool \cup {None},
          third_config \in EntryPool \cup {None} :
       LET given == SelectSeq(<<first_config, second_config, third_config>>,
                              LAMBDA c : ~IsNone(c))
       IN  IF ~exists
           THEN /\ demo' = DemoRaised(Err("FileNotFoundError", "demo.no_media"))
                /\ UNCHANGED <<configs, pipeline>>
           ELSE IF LowerMedia(media_type) \notin {"image", "video"}
           THEN /\ demo' = DemoRaised(Err("ValueError", "demo.media_type"))
                /\ UNCHANGED <<configs, pipeline>>
           ELSE IF ~EnoughConfigs(Len(given))
           THEN /\ demo' = [DemoRaised(Err("ValueError", "demo.min_configs"))
                              EXCEPT !.given = Len(given),
                                     !.media_type = LowerMedia(media_type)]
                /\ configs' = L(given)
                /\ UNCHANGED pipeline
           ELSE /\ configs' = L(given)
                /\ pipeline' = Constructed(L(given))
                /\ demo' = [demo EXCEPT !.pc = IF pipeline'.status = "built"
                                                 THEN "built" ELSE "raised",
                                        !.err = pipeline'.err,
                                        !.given = Len(given),
                                        !.media_type = LowerMedia(media_type)]
    /\ UNCHANGED <<call, applies, proc, ctor, stage, stage3, other, vc, smain>>

\* process_image_with_pipeline: load the image and enter pipeline.apply.
DemoLoadImage ==
    /\ demo.pc = "built"
    /\ demo.media_type = "image"
    /\ \E readable \in BOOLEAN :
         IF readable
         THEN /\ demo' = [demo EXCEPT !.pc = "image", !.loaded = TRUE,
                                      !.frames = <<MediaFrame>>]
              /\ call' = BeginCall(MediaFrame)
         ELSE /\ demo' = DemoRaised(Err("ValueError", "demo.load_image"))
              /\ UNCHANGED call
    /\ UNCHANGED <<configs, pipeline, applies, proc, ctor, stage, stage3, other, vc,
                   smain>>

\* process_image_with_pipeline after apply returned: save the image.
DemoSaveImage ==
    /\ demo.pc = "image"
    /\ call.pc = "returned"
    /\ demo' = IF Rank(call.result) # 3 \/ call.result.shape[3] # 3
               THEN DemoRaised(Err("ValueError", "demo.save_image"))
               ELSE [demo EXCEPT !.pc = "done", !.processed = <<call.result>>]
    /\ UNCHANGED <<configs, pipeline, call, applies, proc, ctor, stage, stage3, other,
                   vc, smain>>

\* process_video_with_pipeline: read all frames of the video.
DemoLoadVideo ==
    /\ demo.pc = "built"
    /\ demo.media_type = "video"
    /\ \E n \in 0..MaxFrames :
         demo' = IF n = 0 THEN DemoRaised(Err("ValueError", "demo.no_frames"))
                 ELSE [demo EXCEPT !.pc = "video", !.loaded = TRUE,
                                   !.frames = [k \in 1..n |-> MediaFrame]]
    /\ UNCHANGED <<configs, pipeline, call, applies, proc, ctor, stage, stage3, other,
                   vc, smain>>

\* VideoProcessor.process_video_frames: the loop body up to the call of
\* processing_func (pipeline.apply) on the next frame.
DemoNextFrame ==
    /\ demo.pc = "video"
    /\ call.pc = "idle"
    /\ demo.i < Len(demo.frames)
    /\ LET frame == demo.frames[demo.i + 1]
           ref == demo.frames[1]
       IN  IF frame.shape[1] # ref.shape[1] \/ frame.shape[2] # ref.shape[2]
           THEN /\ demo' = DemoRaised(Err("ValueError", "video.frame_size"))
                /\ UNCHANGED call
           ELSE /\ call' = BeginCall(frame)
                /\ UNCHANGED demo
    /\ UNCHANGED <<configs, pipeline, applies, proc, ctor, stage, stage3, other, vc,
                   smain>>

\* The rest of the loop body once pipeline.apply returned; after the last
\* frame the video is written.
DemoCollect ==
    /\ demo.pc = "video"
    /\ call.pc = "returned"
    /\ IF Rank(call.result) # 3 \/ call.result.shape[3] # 3
       THEN /\ demo' = DemoRaised(Err("ValueError", "video.frame_format"))
            /\ UNCHANGED call
       ELSE /\ demo' = [demo EXCEPT !.processed = Append(@, call.result),
                                    !.i = @ + 1,
                                    !.pc = IF demo.i + 1 = Len(demo.frames)
                                           THEN "done" ELSE "video"]
            /\ call' = [call EXCEPT !.pc = "idle"]
    /\ UNCHANGED <<configs, pipeline, applies, proc, ctor, stage, stage3, other, vc,
                   smain>>

\* pipeline.apply raised: the error propagates out of the media loop and
\* out of composite_main_demo ("raise").
DemoFail ==
    /\ demo.pc \in {"image", "video"}
    /\ call.pc = "raised"
    /\ demo' = DemoRaised(call.err)
    /\ UNCHANGED <<configs, pipeline, call, applies, proc, ctor, stage, stage3, other,
                   vc, smain>>

(***************************************************************************)
(* BaseDegradation.process, one phase per step.                            *)
(***************************************************************************)
FloatTypes == {"float32", "float64"}

\* An input validation without the element-type check.
ValidateInputDataRankOnly(fr) ==
    IF fr.dtype = "pylist" THEN Err("TypeError", "process.not_ndarray")
    ELSE IF Rank(fr) \notin {3, 4} THEN Err("ValueError", "process.rank")
    ELSE NoErr

\* _validate_input_data: the error it raises, or NoErr.
ValidateInputData(fr) ==
    IF fr.dtype = "pylist" THEN Err("TypeError", "process.not_ndarray")
    ELSE IF Rank(fr) \notin {3, 4} THEN Err("ValueError", "process.rank")
    ELSE IF fr.dtype \notin {"uint8"} \cup FloatTypes
    THEN Err("TypeError", "process.dtype")
    ELSE NoErr

\* preprocess: the identity, except for resample and shake, which rescale
\* a float array with maximum <= 1.0 to 8 bits.
Preprocess(eff, fr) ==
    IF eff.cls \in {"resample", "shake"} /\ fr.dtype \in FloatTypes
    THEN IF ZeroSize(fr) THEN Raises(Err("ValueError", "np.max.zero_size"), eff)
         ELSE IF fr.unit THEN Returns(AsType(fr, "uint8"), eff)
         ELSE Returns(fr, eff)
    ELSE Returns(fr, eff)

\* postprocess: clip to [0, 255] and cast to 8 bits.
Postprocess(eff, fr) == Returns(AsType(fr, "uint8"), eff)

\* "except Exception as e: logger.error(...); raise": the exception that
\* leaves process() when phase raised e.
Reraised(e, phase) == e

ProcRaise(e, phase) ==
    [proc EXCEPT !.pc = "raised", !.cur = NoFrame, !.failed = phase,
                 !.err = Reraised(e, phase), !.phases = Append(@, phase)]

ProcAdvance(o, phase, pc) ==
    IF o.kind = "ok"
    THEN [proc EXCEPT !.pc = pc, !.cur = o.frame, !.eff = o.eff,
                      !.phases = Append(@, phase)]
    ELSE [ProcRaise(o.err, phase) EXCEPT !.eff = o.eff]

\* The effects process() is called on: each registered effect built from
\* an empty params mapping, and compression with a video format.
ProcEffects ==
    {Construct(cls, EmptyDict).eff : cls \in DEGRADATION_CLASSES}
    \cup {Construct("compression", Dict(<<<<"format", S("h264")>>>>)).eff}

ProcFrames ==
    {Frame(<<8, 8, 3>>, "uint8"),
     Frame(<<2, 8, 8, 3>>, "uint8"),
     Frame(<<2, 2, 3>>, "uint8"),
     UnitFrame(<<8, 8, 3>>, "float32"),
     Frame(<<0, 8, 3>>, "float32"),
     Frame(<<8, 8>>, "uint8"),
     Frame(<<8, 8, 3>>, "int32"),
     NotAnArray}

\* A caller invokes effect.process(data).
ProcessCall ==
    /\ proc.pc = "idle"
    /\ pipeline.status = "none"
    /\ demo.pc = "idle"
    /\ ctor.pc = "idle"
    /\ vc.pc = "idle"
    /\ smain.pc = "idle"
    /\ stage.pc = "none"
    /\ stage3.pc = "none"
    /\ \E eff \in ProcEffects, fr \in ProcFrames :
         proc' = [IdleProc EXCEPT !.pc = "called", !.eff = eff, !.data = fr, !.cur = fr]
    /\ UNCHANGED <<configs, pipeline, call, applies, demo, ctor, stage, stage3, other,
                   vc, smain>>

ProcValidate ==
    /\ proc.pc = "called"
    /\ LET e == ValidateInputData(proc.cur)
       IN  proc' = IF IsErr(e) THEN ProcRaise(e, "validate")
                   ELSE [proc EXCEPT !.pc = "validated", !.phases = Append(@, "validate")]
    /\ UNCHANGED <<configs, pipeline, call, applies, demo, ctor, stage, stage3, other,
                   vc, smain>>

ProcPreprocess ==
    /\ proc.pc = "validated"
    /\ proc' = ProcAdvance(Preprocess(proc.eff, proc.cur), "preprocess", "preprocessed")
    /\ UNCHANGED <<configs, pipeline, call, applies, demo, ctor, stage, stage3, other,
                   vc, smain>>

ProcApply ==
    /\ proc.pc = "preprocessed"
    /\ \E o \in EffectApply(proc.eff, proc.cur) :
         proc' = ProcAdvance(o, "apply", "applied")
    /\ UNCHANGED <<configs, pipeline, call, applies, demo, ctor, stage, stage3, other,
                   vc, smain>>

ProcPostprocess ==
    /\ proc.pc = "applied"
    /\ proc' = ProcAdvance(Postprocess(proc.eff, proc.cur), "postprocess", "returned")
    /\ UNCHANGED <<configs, pipeline, call, applies, demo, ctor, stage, stage3, other,
                   vc, smain>>

(***************************************************************************)
(* Construction of one effect by a caller: BaseDegradation.__init__ in its *)
(* steps.  The mapping a caller passes is the object self.params refers    *)
(* to, so what validate_params writes is visible to the caller afterwards. *)
(***************************************************************************)
\* Numbers a caller may give for a numeric parameter (0.5 is F(50)).
Numbers == {I(-5), I(-4), I(0), I(1), I(4), I(500), F(50)}

\* The values the model supplies for parameter k.
ParamValues(k) ==
    CASE k = "blur_type" -> {S(ZhGaussianBlur), S(ZhMeanBlur), S("median")}
      [] k = "noise_type" ->
           {S(t) : t \in valid_noise_types \cup
                         {"gaussian", "poisson", "salt_pepper", "uniform"}}
      [] k = "format" ->
           {S(f) : f \in (DOMAIN SUPPORTED_FORMATS) \cup {"JPEG", "gif"}}
      [] k = "interpolation" -> {S(m) : m \in INTERPOLATION_MAP \cup {"lanczos"}}
      [] k \in {"width_range", "size_range", "range"} ->
           {L(<<I(1), I(4)>>), L(<<F(50), I(4)>>), L(<<I(4), I(1)>>),
            L(<<I(-5), I(500)>>)}
      [] k = "spot_color" ->
           {S("brown"), S("Black"), S("purple"), I(500),
            L(<<I(-5), I(4), I(500)>>)}
      [] OTHER -> Numbers

\* The <<key, value>> lists with at most n of the given keys, in their order.
RECURSIVE ParamPairs(_, _)
ParamPairs(keys, n) ==
    IF n = 0 \/ keys = <<>> THEN {<<>>}
    ELSE ParamPairs(Tail(keys), n)
         \cup {<<<<Head(keys), v>>>> \o rest :
                 v \in ParamValues(Head(keys)), rest \in ParamPairs(Tail(keys), n - 1)}

\* What a caller passes to the constructor of class cls: nothing, a value
\* that is no mapping, mappings over the allow-list, and mappings with a key
\* outside it; for shake, every combination of its four parameters.
RawParams(cls) ==
    {None, S("kernel_size=5")}
    \cup {Dict(ps) : ps \in ParamPairs(allowed_params[cls], MaxParams)}
    \cup {Dict(<<<<"bogus", I(1)>>>> \o ps) : ps \in ParamPairs(allowed_params[cls], 1)}
    \cup {Dict(ps \o <<<<"bogus", I(1)>>>>) : ps \in ParamPairs(allowed_params[cls], 1)}
    \cup (IF cls = "shake"
          THEN {Dict(ps) : ps \in ParamPairs(allowed_params[cls], Len(allowed_params[cls]))}
          ELSE {})

\* self.params after validate_params raised part-way: not tracked.
Untracked == [untracked |-> TRUE]

\* cls(raw) is called: "self.params = params or {}".
NewEffect ==
    /\ ctor.pc = "idle"
    /\ vc.pc = "idle"
    /\ smain.pc = "idle"
    /\ pipeline.status = "none"
    /\ demo.pc = "idle"
    /\ proc.pc = "idle"
    /\ stage.pc = "none"
    /\ stage3.pc = "none"
    /\ \E cls \in DEGRADATION_CLASSES :
         \E raw \in RawParams(cls) :
           ctor' = [IdleCtor EXCEPT !.pc = "bound", !.cls = cls, !.given = raw,
                                    !.params = IF Truthy(raw) THEN raw ELSE EmptyDict]
    /\ UNCHANGED <<configs, pipeline, call, applies, demo, proc, stage, stage3, other,
                   vc, smain>>

\* self._common_param_validation()
CommonValidation ==
    /\ ctor.pc = "bound"
    /\ LET Checked(c) ==
               IF c.ok THEN [ctor EXCEPT !.pc = "checked"]
               ELSE [ctor EXCEPT !.pc = "raised", !.phase = "common", !.err = c.err]
       IN  ctor' = Checked(CommonParamValidation(ctor.cls, ctor.params))
    /\ UNCHANGED <<configs, pipeline, call, applies, demo, proc, stage, stage3, other,
                   vc, smain>>

\* self.validate_params(): the instance exists once it returns.
ValidateParams ==
    /\ ctor.pc = "checked"
    /\ LET Validated(v) ==
               IF v.ok THEN [ctor EXCEPT !.pc = "built", !.params = v.params]
               ELSE [ctor EXCEPT !.pc = "raised", !.phase = "validate",
                                 !.err = v.err, !.params = Untracked]
       IN  ctor' = Validated(validate_params(ctor.cls, ctor.params))
    /\ UNCHANGED <<configs, pipeline, call, applies, demo, proc, stage, stage3, other,
                   vc, smain>>

\* The caller constructs a further effect of the class from the mapping the
\* first construction normalised.
ConstructAgain ==
    /\ ctor.pc = "built"
    /\ ctor' = [ctor EXCEPT !.pc = "rebuilt",
                            !.second = Construct(ctor.cls, ctor.params)]
    /\ UNCHANGED <<configs, pipeline, call, applies, demo, proc, stage, stage3, other,
                   vc, smain>>

(***************************************************************************)
(* Stage1Degradation and Stage2Degradation: construction and apply, one    *)
(* sub-effect invocation per step.                                         *)
(***************************************************************************)
\* BaseDegradation.process as one call: the outcomes of validate,
\* preprocess, apply and postprocess in turn.
Process(eff, fr) ==
    LET Failed(o, phase) == [o EXCEPT !.err = Reraised(o.err, phase)]
        Post(o) ==
            IF o.kind = "raise" THEN Failed(o, "apply")
            ELSE IF o.kind = "none"
            THEN Raises(Reraised(Err("TypeError", "postprocess.none"), "postprocess"),
                        o.eff)
            ELSE Postprocess(o.eff, o.frame)
        Run(pre) ==
            IF pre.kind # "ok" THEN {Failed(pre, "preprocess")}
            ELSE {Post(o) : o \in EffectApply(pre.eff, pre.frame)}
    IN  IF IsErr(ValidateInputData(fr))
        THEN {Raises(Reraised(ValidateInputData(fr), "validate"), eff)}
        ELSE Run(Preprocess(eff, fr))

\* The defaults Stage2Degradation._init_degradations merges the entries
\* into (var = 0.003 is below the resolution of the model's numbers).
Stage2Defaults ==
    [blur |-> Dict(<<<<"kernel_size", I(7)>>, <<"sigma", F(180)>>>>),
     resample |-> Dict(<<<<"width", I(480)>>, <<"height", I(270)>>>>),
     noise |-> Dict(<<<<"type", S("gaussian")>>, <<"mean", I(0)>>, <<"var", F(0)>>>>),
     compression |-> Dict(<<<<"quality", I(30)>>>>)]

\* {**d, **g} from the i-th key of g on.
RECURSIVE Merge(_, _, _)
Merge(d, g, i) ==
    IF i > Len(g.keys) THEN d
    ELSE Merge(Put(d, g.keys[i], g.dict[g.keys[i]]), g, i + 1)

\* The params mapping _init_degradations passes to sub-effect k.
SubParams(cls, p, k) ==
    IF cls = "Stage1" THEN Get(p, k, EmptyDict)
    ELSE Merge(Stage2Defaults[k], Get(p, k, EmptyDict), 1)

\* _init_degradations from the i-th sub-effect on: each is constructed and
\* assigned, then given the media type of the stage, whose setter refuses
\* anything but 'image' and 'video'.
RECURSIVE InitDegradations(_, _, _)
InitDegradations(st, i, r) ==
    IF i > Len(FixedOrder) THEN r
    ELSE LET Slot(c) == [r EXCEPT !.subs[i] = c.eff, !.made[i] = @ + 1]
             Assigned(c) ==
                 IF ~c.ok THEN [r EXCEPT !.ok = FALSE, !.err = c.err]
                 ELSE IF st.media_type \notin {S("image"), S("video")}
                 THEN [Slot(c) EXCEPT !.ok = FALSE,
                                      !.err = Err("ValueError", "media_type.setter")]
                 ELSE InitDegradations(st, i + 1,
                                       [Slot(c) EXCEPT !.flags[i] = st.media_type])
         IN  Assigned(Construct(FixedOrder[i], SubParams(st.cls, st.params, FixedOrder[i])))

\* What a caller passes to the constructor of a stage.
StageParams ==
    {None,
     Dict(<<<<"blur", Dict(<<<<"kernel_size", I(4)>>>>)>>>>),
     Dict(<<<<"noise", S("strong")>>>>),
     Dict(<<<<"bogus", EmptyDict>>>>),
     Dict(<<<<"resample", Dict(<<<<"scale_factor", I(4)>>>>)>>>>),
     Dict(<<<<"noise", Dict(<<<<"noise_type", S(ZhSaltPepperNoise)>>>>)>>>>),
     Dict(<<<<"compression", Dict(<<<<"quality", I(5)>>>>)>>>>)}

\* The arrays apply is called on: an 8-bit image, the [0, 1] float image
\* Stage1Degradation.preprocess makes of it, a 4-D video array and an
\* array no effect accepts.
StageFrames ==
    {MediaFrame, UnitFrame(<<8, 8, 3>>, "float32"), Frame(<<2, 8, 8, 3>>, "uint8"),
     Frame(<<8, 8>>, "int32")}

\* A caller constructs Stage1Degradation(raw) or Stage2Degradation(raw) and
\* sets its media_type, or leaves it unset.
NewStage ==
    /\ stage.pc = "none"
    /\ stage3.pc = "none"
    /\ pipeline.status = "none"
    /\ demo.pc = "idle"
    /\ proc.pc = "idle"
    /\ ctor.pc = "idle"
    /\ vc.pc = "idle"
    /\ smain.pc = "idle"
    /\ \E cls \in {"Stage1", "Stage2"}, raw \in StageParams,
          mt \in {None, S("image"), S("video")} :
         LET Object(c) ==
                 IF c.ok
                 THEN [NoStage EXCEPT !.pc = "built", !.cls = cls,
                                      !.params = c.eff.params, !.media_type = mt]
                 ELSE [NoStage EXCEPT !.pc = "failed", !.cls = cls, !.err = c.err]
         IN  stage' = Object(Construct(cls, raw))
    /\ UNCHANGED <<configs, pipeline, call, applies, demo, proc, ctor, stage3, other,
                   vc, smain>>

\* stage.apply(fr) is called: the sub-effects are initialised when _blur is
\* None.
StageApply ==
    /\ stage.pc \in {"built", "returned", "raised"}
    /\ stage.calls < MaxApplies
    /\ \E fr \in StageFrames :
         LET kept == [ok |-> TRUE, subs |-> stage.subs, flags |-> stage.flags,
                      made |-> stage.made, err |-> NoErr]
             Begin(r) ==
                 [stage EXCEPT !.pc = IF r.ok THEN "running" ELSE "raised",
                               !.subs = r.subs, !.flags = r.flags, !.made = r.made,
                               !.calls = @ + 1,
                               !.idx = IF r.ok THEN 1 ELSE 0,
                               !.data = fr, !.cur = IF r.ok THEN fr ELSE NoFrame,
                               !.log = <<>>, !.result = NoFrame, !.err = r.err]
         IN  stage' = Begin(IF stage.subs[1] = None
                            THEN InitDegradations(stage, 1, kept)
                            ELSE kept)
    /\ UNCHANGED <<configs, pipeline, call, applies, demo, proc, ctor, stage3, other,
                   vc, smain>>

\* The stage after sub-effect stage.idx produced outcome o: an exception
\* leaves apply as it is.
StageAfter(o) ==
    LET entry == [idx |-> stage.idx, cls |-> FixedOrder[stage.idx], kind |-> o.kind,
                  input |-> stage.cur, output |-> o.frame]
    IN  IF o.kind = "ok"
        THEN [stage EXCEPT !.subs[stage.idx] = o.eff, !.cur = o.frame,
                           !.log = Append(@, entry), !.idx = @ + 1,
                           !.pc = IF stage.idx = Len(FixedOrder)
                                  THEN "returned" ELSE "running",
                           !.result = IF stage.idx = Len(FixedOrder)
                                      THEN o.frame ELSE NoFrame]
        ELSE [stage EXCEPT !.subs[stage.idx] = o.eff, !.cur = NoFrame,
                           !.log = Append(@, entry), !.pc = "raised", !.err = o.err]

\* One of the four "x = self._sub.process(previous)" statements of apply.
StageStep ==
    /\ stage.pc = "running"
    /\ IF stage.subs[stage.idx] = None
       THEN stage' = [stage EXCEPT !.pc = "raised", !.cur = NoFrame,
                                   !.err = Err("AttributeError", "stage.sub_is_none")]
       ELSE \E o \in Process(stage.subs[stage.idx], stage.cur) : stage' = StageAfter(o)
    /\ UNCHANGED <<configs, pipeline, call, applies, demo, proc, ctor, stage3, other,
                   vc, smain>>

(***************************************************************************)
(* Stage3Degradation: construction and apply.                              *)
(***************************************************************************)
\* The degradation_type values callers give: the eight names of the
\* extended catalogue, names of the common catalogue, an unknown name and
\* values that are not names.
Stage3Types ==
    {S(n) : n \in SUPPORTED_DEGRADATIONS}
        \cup {S("blur"), S("noise"), S("compression"), S("resample"), S("unknown"),
              S("Shake"), I(3), None, L(<<S("shake")>>)}

\* What a caller passes to the constructor of Stage3Degradation.
Stage3Params ==
    {None, Dict(<<<<"params", EmptyDict>>>>)}
        \cup {Dict(<<<<"degradation_type", t>>>>) : t \in Stage3Types}
        \cup {Dict(<<<<"degradation_type", t>>, <<"params", EmptyDict>>>>) : t \in Stage3Types}
        \cup {Dict(<<<<"degradation_type", S("shake")>>,
                     <<"params", Dict(<<<<"displacement", I(0)>>>>)>>>>),
              Dict(<<<<"degradation_type", S("aliasing")>>, <<"params", S("strong")>>>>),
              Dict(<<<<"degradation_type", S("aliasing")>>, <<"bogus", I(1)>>>>)}

\* A caller constructs Stage3Degradation(raw) and sets its media_type, or
\* leaves it unset. validate_params, called from BaseDegradation.__init__,
\* stores the degradation type; the statements of __init__ that follow
\* super().__init__ then set _degrader and _degradation_type to None.
NewStage3 ==
    /\ stage3.pc = "none"
    /\ stage.pc = "none"
    /\ pipeline.status = "none"
    /\ demo.pc = "idle"
    /\ proc.pc = "idle"
    /\ ctor.pc = "idle"
    /\ vc.pc = "idle"
    /\ smain.pc = "idle"
    /\ \E raw \in Stage3Params, mt \in {None, S("image"), S("video")} :
         LET Object(c) ==
                 IF c.ok
                 THEN [NoStage3 EXCEPT !.pc = "built", !.given = raw,
                                       !.params = c.eff.params,
                                       !.media_type = mt, !.degrader = None,
                                       !.degradation_type = None]
                 ELSE [NoStage3 EXCEPT !.pc = "failed", !.given = raw, !.err = c.err]
         IN  stage3' = Object(Construct("Stage3", raw))
    /\ UNCHANGED <<configs, pipeline, call, applies, demo, proc, ctor, stage, other,
                   vc, smain>>

\* _init_degrader: the effect of the stored type is constructed from the
\* 'params' entry and given the media type of the stage.
InitDegrader(st) ==
    LET Assigned(c) ==
            IF ~c.ok THEN [st EXCEPT !.err = c.err]
            ELSE IF st.media_type \notin {S("image"), S("video")}
            THEN [st EXCEPT !.degrader = c.eff, !.made = @ + 1,
                            !.err = Err("ValueError", "media_type.setter")]
            ELSE [st EXCEPT !.degrader = c.eff, !.made = @ + 1,
                            !.flag = st.media_type, !.err = NoErr]
    IN  IF st.degradation_type = None
        THEN [st EXCEPT !.err = Err("ValueError", "stage3.type_not_initialised")]
        ELSE Assigned(Construct(st.degradation_type.str, Get(st.params, "params", EmptyDict)))

\* stage3.apply(fr): the degrader is initialised when _degrader is None,
\* then the frame is run through its process.
Stage3Apply ==
    /\ stage3.pc \in {"built", "returned", "raised"}
    /\ stage3.calls < MaxApplies
    /\ \E fr \in StageFrames :
         LET Called(st) == [st EXCEPT !.calls = @ + 1, !.data = fr, !.result = NoFrame]
             After(st, o) ==
                 IF o.kind = "ok"
                 THEN [st EXCEPT !.pc = "returned", !.degrader = o.eff, !.result = o.frame]
                 ELSE [st EXCEPT !.pc = "raised", !.degrader = o.eff, !.err = o.err]
             Run(st) ==
                 IF IsErr(st.err) THEN stage3' = [st EXCEPT !.pc = "raised"]
                 ELSE \E o \in Process(st.degrader, fr) : stage3' = After(st, o)
         IN  Run(IF stage3.degrader = None
                 THEN InitDegrader(Called(stage3))
                 ELSE [Called(stage3) EXCEPT !.err = NoErr])
    /\ UNCHANGED <<configs, pipeline, call, applies, demo, proc, ctor, stage, other,
                   vc, smain>>

(***************************************************************************)
(* A second pipeline built from the configuration list object of the      *)
(* first.                                                                  *)
(***************************************************************************)
\* The actual_params handed to the constructors of the effects, in the
\* order the effects are loaded, from entry i on.
RECURSIVE ActualParams(_, _)
ActualParams(entries, i) ==
    IF i > Len(entries) THEN <<>>
    ELSE LET deg_params == Get(entries[i], "params", EmptyDict)
             subs == [j \in 1..Len(SubTypes(deg_params)) |->
                         Unwrap(deg_params.dict[SubTypes(deg_params)[j]])]
         IN  (IF entries[i].dict["name"] = S("composite") THEN subs
              ELSE <<Unwrap(deg_params)>>)
             \o ActualParams(entries, i + 1)

\* "self.params = params or {}": effect j holds the very mapping object of
\* the configuration when that mapping is not empty, a new one otherwise.
HoldsConfigMapping(j) == Truthy(ActualParams(configs.list, 1)[j])

\* The second construction from effect j on. Effect j is constructed from
\* the mapping object of the configuration as the first construction left
\* it, and validation writes its normalised values into that object again
\* (a validation that raises is taken to have written nothing); r.first is
\* the list of effects of the first pipeline, r.degs that of the second.
RECURSIVE LoadAgain(_, _)
LoadAgain(j, r) ==
    IF j > Len(r.first) THEN r
    ELSE LET Loaded(c) ==
                 IF ~c.ok
                 THEN [r EXCEPT !.ok = FALSE, !.degs = <<>>, !.err = c.err]
                 ELSE LoadAgain(j + 1,
                                [r EXCEPT !.degs = Append(@, c.eff),
                                          !.first[j].params =
                                              IF HoldsConfigMapping(j)
                                              THEN c.eff.params ELSE @])
         IN  Loaded(Construct(r.first[j].cls,
                              IF HoldsConfigMapping(j) THEN r.first[j].params
                              ELSE EmptyDict))

\* A caller constructs a second DegradationPipeline from the same
\* configuration list object.
NewPipelineSameConfigs ==
    /\ pipeline.status = "built"
    /\ other.status = "none"
    /\ demo.pc = "idle"
    /\ call.pc # "running"
    /\ LET Built(r) ==
               /\ other' = [status |-> IF r.ok THEN "built" ELSE "failed",
                            degradations |-> r.degs, err |-> r.err]
               /\ pipeline' = [pipeline EXCEPT !.degradations = r.first]
       IN  Built(LoadAgain(1, [ok |-> TRUE, first |-> pipeline.degradations,
                               degs |-> <<>>, err |-> NoErr]))
    /\ UNCHANGED <<configs, call, applies, demo, proc, ctor, stage, stage3, vc, smain>>

(***************************************************************************)
(* CompressionDegradation._apply_video_compression: the frames go to an    *)
(* external encoder and are read back, one step each.                      *)
(***************************************************************************)
\* A restoration that only cuts.
RestoreCountCutOnly(compressed_frames, n_frames) ==
    SubSeq(compressed_frames, 1, IF Len(compressed_frames) < n_frames THEN Len(compressed_frames) ELSE n_frames)

\* "if len(compressed_frames) < n_frames: extend with the last frame;
\* else: compressed_frames[:n_frames]"
RestoreCount(compressed_frames, n_frames) ==
    IF Len(compressed_frames) < n_frames
    THEN compressed_frames
           \o [i \in 1..(n_frames - Len(compressed_frames)) |->
                  compressed_frames[Len(compressed_frames)]]
    ELSE SubSeq(compressed_frames, 1, n_frames)

\* apply is called on n frames; single: the input is one rank-3 frame, which
\* expand_dims makes a batch of one. The frames are written to the
\* temporary file.
VideoCall ==
    /\ vc.pc = "idle"
    /\ smain.pc = "idle"
    /\ pipeline.status = "none"
    /\ demo.pc = "idle"
    /\ proc.pc = "idle"
    /\ ctor.pc = "idle"
    /\ stage.pc = "none"
    /\ stage3.pc = "none"
    /\ \E n \in 1..MaxFrames, single \in BOOLEAN :
         /\ single => n = 1
         /\ vc' = [IdleVc EXCEPT !.pc = "written", !.n = n, !.single = single]
    /\ UNCHANGED <<configs, pipeline, call, applies, demo, proc, ctor, stage, stage3,
                   other, smain>>

\* The encoder round trip: ffmpeg fails, or the re-encoded file is read
\* back and holds m frames, numbered in the order they are read.
VideoRoundTrip ==
    /\ vc.pc = "written"
    /\ \/ vc' = [vc EXCEPT !.pc = "raised",
                           !.err = [Err("RuntimeError", "compression.video")
                                      EXCEPT !.cause = Err("RuntimeError", "ffmpeg")]]
       \/ \E m \in 0..(MaxFrames + 1) :
            vc' = [vc EXCEPT !.pc = "read", !.codec = [i \in 1..m |-> i]]
    /\ UNCHANGED <<configs, pipeline, call, applies, demo, proc, ctor, stage, stage3,
                   other, smain>>

\* The rest of the call: no frame is an error, otherwise the count is
\* restored and a single frame is squeezed back to rank 3 (np.squeeze
\* refuses an axis whose length is not 1); every exception is re-raised as
\* RuntimeError.
VideoRestore ==
    /\ vc.pc = "read"
    /\ LET Failed(site) ==
               [vc EXCEPT !.pc = "raised",
                          !.err = [Err("RuntimeError", "compression.video")
                                     EXCEPT !.cause = Err("RuntimeError", site)]]
           Result(frames) ==
               IF ~vc.single
               THEN [vc EXCEPT !.pc = "returned", !.out = frames, !.rank = 4]
               ELSE IF Len(frames) = 1
               THEN [vc EXCEPT !.pc = "returned", !.out = frames, !.rank = 3]
               ELSE Failed("squeeze")
       IN  vc' = IF vc.codec = <<>> THEN Failed("compression.no_frames")
                 ELSE Result(RestoreCount(vc.codec, vc.n))
    /\ UNCHANGED <<configs, pipeline, call, applies, demo, proc, ctor, stage, stage3,
                   other, smain>>

(***************************************************************************)
(* single_main_demo: one effect applied to one media file.                 *)
(***************************************************************************)
\* default_params of validate_degradation_params.
default_params ==
    [blur |-> Dict(<<<<"kernel_size", I(5)>>, <<"sigma", F(100)>>>>),
     noise |-> Dict(<<<<"noise_type", S("gaussian")>>, <<"intensity", F(10)>>>>),
     resample |-> Dict(<<<<"scale_factor", F(50)>>, <<"interpolation", S("bilinear")>>>>),
     compression |-> Dict(<<<<"quality", I(80)>>, <<"format", S("jpeg")>>>>),
     aliasing |-> Dict(<<<<"downsample_factor", I(2)>>>>),
     scratch |-> Dict(<<<<"num_scratches", I(3)>>, <<"intensity", F(50)>>>>),
     motion_blur |-> Dict(<<<<"blur_length", I(10)>>, <<"angle", I(0)>>>>),
     flicker |-> Dict(<<<<"intensity", F(30)>>, <<"frequency", I(5)>>>>)]

\* validate_degradation_params: the defaults of the type, updated with the
\* caller's parameters (a value that is not a mapping counts as {}).
validate_degradation_params(degradation_type, params) ==
    Merge(IF degradation_type \in DOMAIN default_params
          THEN default_params[degradation_type] ELSE EmptyDict,
          IF IsDict(params) THEN params ELSE EmptyDict, 1)

\* The degradation_params callers give: none, an empty mapping, a value
\* that is not a mapping, and a noise type of the effect's own catalogue.
SingleParams ==
    {None, EmptyDict, S("kernel_size=5"),
     Dict(<<<<"noise_type", S(ZhGaussianNoise)>>>>)}

SmainFailed(e) == [smain EXCEPT !.pc = "done", !.status = "error", !.err = e]

\* single_main_demo up to the call of process_image / process_video.
\* exists: the media file exists.
SingleStart ==
    /\ smain.pc = "idle"
    /\ vc.pc = "idle"
    /\ pipeline.status = "none"
    /\ demo.pc = "idle"
    /\ proc.pc = "idle"
    /\ ctor.pc = "idle"
    /\ stage.pc = "none"
    /\ stage3.pc = "none"
    /\ \E exists \in BOOLEAN, mt \in MediaTypes,
          t \in DEGRADATION_CLASSES \cup {"not_a_real_effect"}, params \in SingleParams :
         LET run == [IdleSmain EXCEPT !.media_type = mt, !.degradation_type = t,
                                       !.given = params]
             Failed(e) == [run EXCEPT !.pc = "done", !.status = "error", !.err = e]
         IN  smain' =
               IF ~exists THEN Failed(Err("FileNotFoundError", "single_main.no_file"))
               ELSE IF mt \notin {"image", "video"}
               THEN Failed(Err("ValueError", "single_main.media_type"))
               ELSE IF t \notin DEGRADATION_CLASSES
               THEN Failed(UnknownTypeErr("single_main.unknown_type", S(t)))
               ELSE [run EXCEPT !.pc = "validated",
                                !.validated_params =
                                    validate_degradation_params(
                                        t, IF IsNone(params) THEN EmptyDict ELSE params)]
    /\ UNCHANGED <<configs, pipeline, call, applies, demo, proc, ctor, stage, stage3,
                   other, vc>>

\* process_image / process_video up to the frame loop: the media is loaded
\* (n frames; none is an error) and the effect is instantiated from the
\* validated parameters.
SingleLoad ==
    /\ smain.pc = "validated"
    /\ \E n \in 0..MaxFrames :
         /\ smain.media_type = "image" => n <= 1
         /\ LET Instantiated(c) ==
                    IF c.ok THEN [smain EXCEPT !.pc = "loaded", !.eff = c.eff, !.n = n]
                    ELSE SmainFailed(c.err)
            IN  smain' =
                  IF n = 0 THEN SmainFailed(Err("ValueError", "single_main.no_media"))
                  ELSE Instantiated(Construct(smain.degradation_type,
                                              smain.validated_params))
    /\ UNCHANGED <<configs, pipeline, call, applies, demo, proc, ctor, stage, stage3,
                   other, vc>>

\* degradation.apply on the next frame; after the last frame the output is
\* saved (saved: the output file exists afterwards) and the result reports
\* success.
SingleFrame ==
    /\ smain.pc = "loaded"
    /\ \E o \in EffectApply(smain.eff, MediaFrame), saved \in BOOLEAN :
         LET last == smain.i + 1 = smain.n
         IN  smain' =
               IF o.kind = "raise" THEN SmainFailed(o.err)
               ELSE IF o.kind = "none"
               THEN SmainFailed(Err("RuntimeError", "single_main.empty_result"))
               ELSE IF smain.media_type = "video"
                       /\ (Rank(o.frame) # 3 \/ o.frame.shape[3] # 3)
               THEN SmainFailed(Err("ValueError", "video.frame_format"))
               ELSE IF last /\ ~saved
               THEN SmainFailed(Err("RuntimeError", "single_main.save_failed"))
               ELSE [smain EXCEPT !.eff = o.eff, !.i = @ + 1,
                                   !.pc = IF last THEN "done" ELSE "loaded",
                                   !.status = IF last THEN "success" ELSE ""]
    /\ UNCHANGED <<configs, pipeline, call, applies, demo, proc, ctor, stage, stage3,
                   other, vc>>

Next ==
    \/ NewPipeline
    \/ Apply
    \/ ApplyStep
    \/ DemoStart
    \/ DemoLoadImage
    \/ DemoSaveImage
    \/ DemoLoadVideo
    \/ DemoNextFrame
    \/ DemoCollect
    \/ DemoFail
    \/ ProcessCall
    \/ ProcValidate
    \/ ProcPreprocess
    \/ ProcApply
    \/ ProcPostprocess
    \/ NewEffect
    \/ CommonValidation
    \/ ValidateParams
    \/ ConstructAgain
    \/ NewStage
    \/ StageApply
    \/ StageStep
    \/ NewStage3
    \/ Stage3Apply
    \/ NewPipelineSameConfigs
    \/ VideoCall
    \/ VideoRoundTrip
    \/ VideoRestore
    \/ SingleStart
    \/ SingleLoad
    \/ SingleFrame

Spec == Init /\ [][Next]_vars

(***************************************************************************)
(* Properties.                                                             *)
(***************************************************************************)
\* The effect names of a configuration list in configuration order; a
\* composite entry stands for its sub-effects in the order of its keys.
RECURSIVE ConfigOrder(_)
ConfigOrder(q) ==
    IF q = <<>> THEN <<>>
    ELSE LET e == Head(q)
         IN  (IF e.dict["name"] = S("composite")
              THEN Get(e, "params", EmptyDict).keys
              ELSE <<e.dict["name"].str>>) \o ConfigOrder(Tail(q))

ClassesOf(q) == [j \in 1..Len(q) |-> q[j].cls]

Changed(log) == SelectSeq(log, LAMBDA x : x.changed)

InCall == call.pc \in {"running", "returned", "raised"}

\* C1: DegradationPipeline.apply threads the frame through the effects in
\* configuration order.  The effect instances stand in the order of the
\* configuration list; during a call the effects invoked so far are
\* effects 1..i-1, each once and in that order, all but a failing last one
\* having returned; effect i receives the output of effect i-1, so the
\* content history of the threaded value is the input's history followed by
\* the effects that changed it, in configuration order; and a returned call
\* has invoked every effect.
C1_ThreadsInConfigurationOrder ==
    /\ pipeline.status = "built" =>
         ClassesOf(pipeline.degradations) = ConfigOrder(configs.list)
    /\ InCall =>
         /\ \A j \in 1..Len(call.log) :
              /\ call.log[j].idx = j
              /\ call.log[j].cls = pipeline.degradations[j].cls
         /\ \A j \in 1..(Len(call.log) - 1) : call.log[j].kind = "ok"
         /\ call.pc # "raised" =>
              /\ Len(call.log) = call.idx - 1
              /\ call.result.hist = call.data.hist \o ClassesOf(Changed(call.log))
         /\ call.pc = "returned" => Len(call.log) = Len(pipeline.degradations)

\* A call on [noise, flicker] returned flicker(noise(frame)).
C1_Witness ==
    /\ configs = L(<<E_noise, E_flicker>>)
    /\ call.pc = "returned"
    /\ call.result.hist = <<"noise", "flicker">>

\* C2: when the k-th effect raises or returns None during apply, the call
\* ends with an error: effect k is the last one invoked, no frame is
\* returned, and the error carries the 1-indexed position k and the class
\* name of effect k.
C2_HaltsAtFailingEffect ==
    call.pc = "raised" =>
        LET k == Len(call.log)
        IN  /\ k >= 1
            /\ call.log[k].idx = k
            /\ call.log[k].kind \in {"raise", "none"}
            /\ call.idx = k
            /\ call.result = NoFrame
            /\ call.err.pos = k
            /\ call.err.name = ClassNames[pipeline.degradations[k].cls]
            /\ IsErr(call.err.cause)

\* The second of three effects failed and the third was not invoked.
C2_Witness ==
    /\ call.pc = "raised"
    /\ Len(pipeline.degradations) = 3
    /\ Len(call.log) = 2
    /\ call.err.pos = 2

AllValid(cfgs) == \A i \in 1..Len(cfgs.list) : cfgs.list[i] \in ValidEntries

\* C3 as stated: a configuration of exactly one entry never builds, through
\* composite_main_demo or by direct construction.
C3_OneEntryNeverBuilds ==
    (IsList(configs) /\ Len(configs.list) = 1) => pipeline.status # "built"

\* C3: composite_main_demo, given an existing media file of a supported
\* type and exactly one configuration, raises the minimum-configurations
\* error before a pipeline is constructed, media is loaded or a frame is
\* processed; constructing DegradationPipeline directly from one valid
\* entry succeeds; two or more valid entries build on either route.
C3_MinimumOnlyInDemo ==
    /\ (demo.pc # "idle" /\ demo.given = 1) =>
         /\ demo.pc = "raised"
         /\ demo.err.site = "demo.min_configs"
         /\ pipeline.status = "none"
         /\ ~demo.loaded
         /\ call = IdleCall
    /\ (demo.pc = "idle" /\ pipeline.status # "none" /\ IsList(configs)
          /\ Len(configs.list) = 1 /\ AllValid(configs)) =>
         pipeline.status = "built"
    /\ (pipeline.status # "none" /\ IsList(configs) /\ Len(configs.list) >= 2
          /\ AllValid(configs)) =>
         pipeline.status = "built"

\* composite_main_demo refused a single configuration.
C3_Witness ==
    /\ demo.pc = "raised"
    /\ demo.given = 1
    /\ demo.err.site = "demo.min_configs"

\* An entry that names an effect outside the registry, or a composite entry
\* with a key outside the registry.
NamesUnknown(e) ==
    /\ IsDict(e)
    /\ Has(e, "name")
    /\ IF e.dict["name"] = S("composite")
       THEN /\ IsDict(Get(e, "params", EmptyDict))
            /\ \E k \in DOMAIN Get(e, "params", EmptyDict).dict :
                 k \notin DEGRADATION_CLASSES
       ELSE ~(IsStr(e.dict["name"]) /\ e.dict["name"].str \in DEGRADATION_CLASSES)

HasUnknown(cfgs) ==
    IsList(cfgs) /\ \E i \in 1..Len(cfgs.list) : NamesUnknown(cfgs.list[i])

\* The unknown-effect error: it lists every registered name.
IsUnknownEffectErr(e) ==
    /\ e.listed = DEGRADATION_CLASSES
    /\ IsErr(e.cause)
    /\ e.cause.site \in {"load.unknown_type", "pipeline.unknown_sub_type"}

\* The sub-effects of a composite entry before its first unregistered key
\* all construct.
RECURSIVE EarlierSubsLoad(_, _)
EarlierSubsLoad(d, i) ==
    IF i > Len(d.keys) \/ d.keys[i] \notin DEGRADATION_CLASSES THEN TRUE
    ELSE /\ Construct(d.keys[i], Unwrap(d.dict[d.keys[i]])).ok
         /\ EarlierSubsLoad(d, i + 1)

\* The first entry that does not load is one that names an unknown effect,
\* and nothing else is wrong with it up to that name.
UnknownFailsFirst(cfgs) ==
    \E i \in 1..Len(cfgs.list) :
        /\ \A j \in 1..(i - 1) : cfgs.list[j] \in ValidEntries
        /\ NamesUnknown(cfgs.list[i])
        /\ IsDict(Get(cfgs.list[i], "params", EmptyDict))
        /\ cfgs.list[i].dict["name"] = S("composite") =>
             EarlierSubsLoad(Get(cfgs.list[i], "params", EmptyDict), 1)

\* C4 as stated: a configuration with an entry naming an unknown effect
\* always fails with the unknown-effect error.
C4_AlwaysUnknownEffectError ==
    (pipeline.status # "none" /\ HasUnknown(configs)) =>
        /\ pipeline.status = "failed"
        /\ IsUnknownEffectErr(pipeline.err)

\* C4: a configuration with an entry naming an unknown effect (a partial
\* match included) never builds and leaves no pipeline object; the error is
\* the unknown-effect error listing every registered name when that entry
\* is the first one that fails to load and its params is a mapping whose
\* earlier sub-effects construct.
C4_UnknownEffectRejected ==
    (pipeline.status # "none" /\ HasUnknown(configs)) =>
        /\ pipeline.status = "failed"
        /\ pipeline.degradations = <<>>
        /\ UnknownFailsFirst(configs) =>
             /\ IsUnknownEffectErr(pipeline.err)
             /\ pipeline.err.type = "ValueError"

\* The prefix "blu" of a registered name was rejected after a valid entry.
C4_Witness ==
    /\ pipeline.status = "failed"
    /\ configs = L(<<E_noise, E_partial>>)
    /\ pipeline.err.name = "blu"
    /\ pipeline.err.listed = DEGRADATION_CLASSES

\* C5 as stated: every configuration error of the constructor names the
\* 1-indexed position of the offending entry and, when that entry has a
\* name, the name, and a load or parameter failure carries its cause.
C5_ErrorsNamePositionAndName ==
    (pipeline.status = "failed" /\ pipeline.err.site # "pipeline.not_list") =>
        /\ pipeline.err.pos \in 1..Len(configs.list)
        /\ LET entry == configs.list[pipeline.err.pos]
           IN  (IsDict(entry) /\ Has(entry, "name")) =>
                 pipeline.err.name = NameText(entry.dict["name"])
        /\ pipeline.err.site = "pipeline.load_failed" => IsErr(pipeline.err.cause)

\* The number of invocations of effect j made by the current call.
InvokedNow(j) == IF call.pc \in {"running", "returned"} /\ j < call.idx THEN 1 ELSE 0

\* C6: while a video is processed, frames are handled in index order by the
\* effect instances of the one pipeline: demo.i frames are complete, and
\* every flicker or shake instance has counted exactly the frames it has
\* been invoked on, so it is invoked on frame k with its counter equal to k.
C6_CounterEqualsFrameIndex ==
    (demo.pc = "video" /\ call.pc # "raised") =>
        /\ demo.i = Len(demo.processed)
        /\ \A j \in 1..Len(pipeline.degradations) :
             pipeline.degradations[j].cls \in Gated =>
               pipeline.degradations[j].frame_counter = demo.i + InvokedNow(j)

\* A flicker or shake instance is about to process the third frame (k = 2)
\* with its counter at 2.
C6_Witness ==
    /\ demo.pc = "video"
    /\ demo.i = 2
    /\ call.pc = "running"
    /\ pipeline.degradations[call.idx].cls \in Gated
    /\ pipeline.degradations[call.idx].frame_counter = 2

\* C7 as stated: no transform runs on a frame that the base input
\* validation would reject.
C7_InvalidFrameRejectedFirst ==
    (InCall /\ IsErr(ValidateInputData(call.data))) => call.log = <<>>

\* A valid 8-bit frame: H x W x 3 or N x H x W x 3 of uint8.
Valid8Bit(fr) ==
    /\ fr.dtype = "uint8"
    /\ Rank(fr) \in {3, 4}
    /\ fr.shape[Rank(fr)] = 3

\* C8 as stated: on a valid 8-bit frame process() of every effect returns
\* a uint8 frame of the input's shape.
C8_ProcessPreservesShape ==
    (proc.pc \in {"returned", "raised"} /\ Valid8Bit(proc.data)) =>
        /\ proc.pc = "returned"
        /\ proc.cur.shape = proc.data.shape
        /\ proc.cur.dtype = "uint8"

Phases == <<"validate", "preprocess", "apply", "postprocess">>

IsPrefix(a, b) == Len(a) <= Len(b) /\ \A i \in 1..Len(a) : a[i] = b[i]

\* C9: process() runs input validation, preprocess, apply, postprocess in
\* that order, each at most once; a frame of wrong rank or element type
\* raises in validation and preprocess is never invoked; the phase that
\* fails is the last one run and no frame is returned; a returned call has
\* run all four.
C9_PhasesInOrder ==
    /\ IsPrefix(proc.phases, Phases)
    /\ proc.pc = "returned" => (proc.phases = Phases /\ proc.cur # NoFrame)
    /\ proc.pc = "raised" =>
         /\ proc.cur = NoFrame
         /\ proc.phases # <<>>
         /\ proc.failed = proc.phases[Len(proc.phases)]
         /\ IsErr(proc.err)
    /\ (proc.pc \notin {"idle", "called"}
          /\ (Rank(proc.data) \notin {3, 4}
                \/ proc.data.dtype \notin {"uint8", "float32", "float64"})) =>
         /\ proc.pc = "raised"
         /\ proc.phases = <<"validate">>

\* process() rejected a 3-dimensional int32 array in validation.
C9_Witness ==
    /\ proc.pc = "raised"
    /\ proc.data = Frame(<<8, 8, 3>>, "int32")
    /\ proc.phases = <<"validate">>

\* C10 as stated: the error that leaves process() identifies the phase
\* that failed.
C10_ErrorNamesPhase ==
    proc.pc = "raised" => (IsErr(proc.err) /\ proc.err.phase = proc.failed)

\* The keys of the mapping given to the constructor that are outside the
\* allow-list of its class.
ForeignKeys ==
    IF IsDict(ctor.given)
    THEN RangeOf(ctor.given.keys) \ RangeOf(allowed_params[ctor.cls])
    ELSE {}

\* C11: an effect constructed with a params mapping that has a key outside
\* the allow-list of its class raises a ValueError naming such a key; it is
\* raised by the common check, before validate_params runs, so the mapping is
\* what the caller passed and no instance is produced.
C11_ForeignKeyRejectedUnmodified ==
    (ctor.pc \notin {"idle", "bound"} /\ ForeignKeys # {}) =>
        /\ ctor.pc = "raised"
        /\ ctor.phase = "common"
        /\ ctor.err.type = "ValueError"
        /\ ctor.err.key \in ForeignKeys
        /\ ctor.params = ctor.given

\* A mapping whose second key is the foreign one has been rejected.
C11_Witness ==
    /\ ctor.pc = "raised"
    /\ ForeignKeys # {}
    /\ Len(ctor.given.keys) = 2
    /\ ctor.given.keys[1] \in RangeOf(allowed_params[ctor.cls])
    /\ ctor.err.key = ctor.given.keys[2]

\* C12: validation is idempotent: constructing a second effect from the
\* mapping a first construction normalised never raises and yields exactly
\* the same normalised parameters.
C12_ValidationIdempotent ==
    ctor.pc = "rebuilt" =>
        /\ ctor.second.ok
        /\ ctor.second.eff.params = ctor.params

\* The constructor was given a mapping in which parameter k is an integer.
GivenInt(k) == IsDict(ctor.given) /\ Has(ctor.given, k) /\ IsInt(ctor.given.dict[k])

\* C13: blur, edge_artifact and motion_blur constructed with any integer
\* kernel_size (even, odd, zero or negative) store an odd kernel_size that is
\* at least 1.
C13_KernelSizeOddPositive ==
    (/\ ctor.pc = "built"
     /\ ctor.cls \in {"blur", "edge_artifact", "motion_blur"}
     /\ GivenInt("kernel_size")) =>
        /\ IsInt(ctor.params.dict["kernel_size"])
        /\ ctor.params.dict["kernel_size"].int % 2 = 1
        /\ ctor.params.dict["kernel_size"].int >= 1

\* The constructor was given a mapping in which parameter k is a number.
GivenNum(k) == IsDict(ctor.given) /\ Has(ctor.given, k) /\ IsNum(ctor.given.dict[k])

\* The constructor has finished: it returned the instance or raised.
Finished == ctor.pc \in {"built", "rebuilt", "raised"}

\* The instance exists.
Built == ctor.pc \in {"built", "rebuilt"}

\* The fractional parameters validation clamps, as <<class, key>>.
ClampedFractions ==
    {<<"noise", "intensity">>, <<"scratch", "intensity">>, <<"interlace", "intensity">>,
     <<"flicker", "intensity">>, <<"dirt", "darkness">>, <<"edge_artifact", "strength">>}

\* The stored value of k lies within the bound of class cls, in hundredths:
\* [0, 1], but [0.01, 30] for the intensity of Gaussian and Poisson noise
\* and [0.01, 1] for that of salt-and-pepper noise.
WithinBound(cls, k) ==
    LET v == Cent(ctor.params.dict[k])
    IN  IF cls = "noise"
        THEN 1 <= v /\ v <= (IF ctor.params.dict["noise_type"] = S(ZhSaltPepperNoise)
                             THEN 100 ELSE 3000)
        ELSE 0 <= v /\ v <= 100

Catalogue ==
    {<<"compression", "format", {"jpeg", "png", "webp", "h264", "mpeg4"}>>,
     <<"noise", "noise_type", {"gaussian", "poisson", "salt_pepper"}>>,
     <<"resample", "interpolation", {"bilinear", "nearest", "bicubic", "area"}>>}

\* C15: constructed with only a format, noise_type or interpolation, an
\* effect is built exactly when the literal is one the catalogue documents,
\* and otherwise the constructor raises a ValueError naming the parameter;
\* any blur_type, supported or not, is accepted.
C15_CatalogueLiteralsExactlyAccepted ==
    /\ \A c \in Catalogue :
           (/\ Finished
            /\ ctor.cls = c[1]
            /\ IsDict(ctor.given)
            /\ ctor.given.keys = <<c[2]>>) =>
               IF ctor.given.dict[c[2]].str \in c[3] THEN Built
               ELSE /\ ctor.pc = "raised"
                    /\ ctor.err.type = "ValueError"
                    /\ ctor.err.key = c[2]
    /\ (/\ Finished
        /\ ctor.cls = "blur"
        /\ IsDict(ctor.given)
        /\ ctor.given.keys = <<"blur_type">>) => Built

\* C16: a shake effect given a displacement whose integer value is less than
\* 1 is never built, whatever max_offset, mix_weight and frequency accompany
\* it: the constructor raises a ValueError, which names displacement unless
\* the max_offset given was itself refused first.
C16_SmallDisplacementRejected ==
    (/\ Finished
     /\ ctor.cls = "shake"
     /\ ForeignKeys = {}
     /\ GivenNum("displacement")
     /\ ToInt(ctor.given.dict["displacement"]) < 1) =>
        /\ ctor.pc = "raised"
        /\ ctor.phase = "validate"
        /\ ctor.err.type = "ValueError"
        /\ ctor.err.key \in {"displacement", "max_offset"}
        /\ ctor.err.key = "max_offset" =>
               Has(ctor.given, "max_offset") /\ ToInt(ctor.given.dict["max_offset"]) < 1

\* displacement 0 given together with valid max_offset, mix_weight and
\* frequency has been refused on account of the displacement.
C16_Witness ==
    /\ ctor.pc = "raised"
    /\ ctor.cls = "shake"
    /\ ctor.given = Dict(<<<<"max_offset", I(4)>>, <<"mix_weight", F(50)>>,
                           <<"frequency", I(4)>>, <<"displacement", I(0)>>>>)
    /\ ctor.err.key = "displacement"

\* max(1, round(30 / f)) for a frequency of c hundredths, c > 0, with
\* Python's round (a tie goes to the even integer).
RoundedInterval(c) ==
    LET q == 3000 \div c
        r == 3000 % c
        n == IF 2 * r < c THEN q
             ELSE IF 2 * r > c THEN q + 1
             ELSE IF q % 2 = 0 THEN q ELSE q + 1
    IN  IF n < 1 THEN 1 ELSE n

\* C17: a flicker or shake instance with frequency f > 0 changes the frame
\* exactly on the calls where its counter c satisfies c mod T = 0 with
\* T = max(1, round(30 / f)), and returns the content unchanged on the
\* others; the intervals flicker and shake compute for f are both that T.
C17_GatedByRoundedInterval ==
    /\ pipeline.status = "built" =>
         \A i \in 1..Len(call.log) :
            LET e == call.log[i]
                eff == pipeline.degradations[e.idx]
            IN  (/\ e.cls \in Gated
                 /\ e.kind = "ok"
                 /\ eff.params.dict["frequency"].flt > 0) =>
                    (e.changed <=>
                       (eff.frame_counter - 1)
                           % RoundedInterval(eff.params.dict["frequency"].flt) = 0)
    /\ (Built /\ ctor.cls \in Gated /\ ctor.params.dict["frequency"].flt > 0) =>
         /\ FlickerInterval(ctor.params.dict["frequency"].flt)
              = RoundedInterval(ctor.params.dict["frequency"].flt)
         /\ ShakeInterval(ctor.params.dict["frequency"].flt)
              = RoundedInterval(ctor.params.dict["frequency"].flt)

\* The effect names of a configuration list when a composite entry stands
\* for its sub-effects in the order blur, resample, noise, compression.
RECURSIVE FixedConfigOrder(_)
FixedConfigOrder(q) ==
    IF q = <<>> THEN <<>>
    ELSE LET e == Head(q)
         IN  (IF e.dict["name"] = S("composite")
              THEN SubTypesFixedOrder(Get(e, "params", EmptyDict))
              ELSE <<e.dict["name"].str>>) \o FixedConfigOrder(Tail(q))

\* The pipeline was built from a configuration with a 'composite' entry.
BuiltWithComposite ==
    /\ pipeline.status = "built"
    /\ \E i \in 1..Len(configs.list) : configs.list[i].dict["name"] = S("composite")

\* C19 as stated: the sub-effects of a 'composite' entry exist once the
\* pipeline is built and stand, and are invoked, in the order blur,
\* resample, noise, compression whatever the order of the keys.
C19_CompositeInFixedOrder ==
    BuiltWithComposite =>
        /\ ClassesOf(pipeline.degradations) = FixedConfigOrder(configs.list)
        /\ call.pc = "returned" =>
             [j \in 1..Len(call.log) |-> call.log[j].cls] = FixedConfigOrder(configs.list)

\* C19, amended: the sub-effects of a 'composite' entry exist once the
\* pipeline is built, before any frame is applied, and stand, and are
\* invoked, in the order of the keys of the entry's params mapping.
C19_CompositeInKeyOrder ==
    BuiltWithComposite =>
        /\ ClassesOf(pipeline.degradations) = ConfigOrder(configs.list)
        /\ call.pc = "returned" =>
             [j \in 1..Len(call.log) |-> call.log[j].cls] = ConfigOrder(configs.list)

\* A pipeline built from a composite entry with the keys noise, blur holds
\* a noise and a blur instance before any call, in that order.
C19_Witness ==
    /\ pipeline.status = "built"
    /\ configs = L(<<E_composite>>)
    /\ call.pc = "idle"
    /\ pipeline.degradations[1].cls = "noise"
    /\ pipeline.degradations[2].cls = "blur"

\* An apply call of a stage has come to its end, by return or by exception.
ApplyEnded == stage.calls > 0 /\ stage.pc \in {"returned", "raised"}

\* No invoked sub-effect raised in the current apply call.
NoSubRaised == \A i \in DOMAIN stage.log : stage.log[i].kind = "ok"

\* The current call invoked blur, resample, noise and compression once each
\* in this order, each on the output of the one before, and returned the
\* output of compression.
RanFourInOrder ==
    /\ stage.pc = "returned"
    /\ Len(stage.log) = Len(FixedOrder)
    /\ \A i \in DOMAIN stage.log :
         /\ stage.log[i].cls = FixedOrder[i]
         /\ stage.log[i].input = IF i = 1 THEN stage.data ELSE stage.log[i - 1].output
    /\ stage.result = stage.log[Len(FixedOrder)].output

\* C18: an apply call of a Stage1Degradation or Stage2Degradation built with
\* default parameters and given a media type, in which no sub-effect raises,
\* invokes blur, resample, noise and compression exactly once each in this
\* order, each on the previous output, and returns the compression output.
C18_StagesRunFourInOrder ==
    (/\ ApplyEnded
     /\ stage.params = EmptyDict
     /\ stage.media_type # None
     /\ NoSubRaised)
        => RanFourInOrder

\* A sub-effect invoked by the current apply call raised.
SubRaised ==
    /\ stage.pc = "raised"
    /\ stage.log # <<>>
    /\ stage.log[Len(stage.log)].kind # "ok"

\* The stage stopped at the sub-effect that raised and returned no frame.
StageAborted ==
    /\ Len(stage.log) = stage.idx
    /\ \A i \in 1..(Len(stage.log) - 1) : stage.log[i].kind = "ok"
    /\ stage.result = NoFrame
    /\ stage.cur = NoFrame
    /\ IsErr(stage.err)

\* C20 as stated: when a sub-effect raises during apply the stage aborts, no
\* later sub-effect runs, no frame is returned, and the error that leaves
\* apply names the sub-effect that failed and its position among blur,
\* resample, noise, compression.
C20_SubEffectFailureIdentified ==
    SubRaised =>
        /\ StageAborted
        /\ stage.err.name = FixedOrder[stage.idx]
        /\ stage.err.pos = stage.idx

\* The sub-effect slots of the stage that hold an instance.
SlotsSet == {i \in DOMAIN stage.subs : stage.subs[i] # None}

\* C27: in every state either none of the four sub-effect slots of a
\* Stage1Degradation or Stage2Degradation is set or all four are, and apply
\* never calls process on a slot that is unset.
C27_InitAllOrNothing ==
    /\ SlotsSet \in {{}, DOMAIN stage.subs}
    /\ stage.err # Err("AttributeError", "stage.sub_is_none")

\* The slice of the stage's parameters meant for sub-effect i is one the
\* sub-effect accepts.
SliceValid(i) == Construct(FixedOrder[i], Get(stage.params, FixedOrder[i], EmptyDict)).ok

\* Sub-effect i exists, was constructed once, from the slice of the stage's
\* parameters meant for it, and carries the media type of the stage.
SubBuiltOnce(i) ==
    /\ stage.subs[i] # None
    /\ stage.subs[i].cls = FixedOrder[i]
    /\ stage.subs[i].params
         = Construct(FixedOrder[i], SubParams(stage.cls, stage.params, FixedOrder[i])).eff.params
    /\ stage.made[i] = 1
    /\ stage.flags[i] = stage.media_type

\* C26 as stated: a stage has no sub-effect before its first apply; once an
\* apply call has begun on a stage whose slices the sub-effects accept,
\* whatever the media type of the stage (unset, image or video), all four
\* sub-effects exist, each built from its own slice and carrying the media
\* type of the stage, and each was constructed exactly once however many
\* calls followed.
C26_LazyOnceWithSliceAndFlag ==
    /\ stage.calls = 0 => (SlotsSet = {} /\ stage.made = <<0, 0, 0, 0>>)
    /\ (stage.calls > 0 /\ \A i \in DOMAIN stage.subs : SliceValid(i)) =>
         \A i \in DOMAIN stage.subs : SubBuiltOnce(i)

\* C29: the parameter mappings a validated Stage2Degradation builds for its
\* sub-effects hold only keys on the allow-list of the sub-effect, and with
\* the media type set its first apply constructs all four sub-effects
\* without a parameter error.
C29_Stage2DefaultsAccepted ==
    (stage.cls = "Stage2" /\ stage.pc # "failed") =>
        /\ \A i \in DOMAIN FixedOrder :
             RangeOf(SubParams("Stage2", stage.params, FixedOrder[i]).keys)
                 \subseteq RangeOf(allowed_params[FixedOrder[i]])
        /\ (stage.calls > 0 /\ stage.media_type # None) =>
             (SlotsSet = DOMAIN stage.subs /\ stage.err.site # "common.unsupported_param")

\* The eight effects of the extended catalogue.
ExtendedCatalogue ==
    {"aliasing", "scratch", "dirt", "interlace", "edge_artifact", "motion_blur",
     "flicker", "shake"}

\* The constructor of the special stage was given a degradation_type of the
\* extended catalogue.
TypeInCatalogue ==
    /\ IsDict(stage3.given)
    /\ Has(stage3.given, "degradation_type")
    /\ stage3.given.dict["degradation_type"] \in {S(n) : n \in ExtendedCatalogue}

\* Apart from degradation_type the mapping holds at most a 'params' mapping.
RestWellFormed ==
    /\ RangeOf(stage3.given.keys) \subseteq {"degradation_type", "params"}
    /\ Has(stage3.given, "params") => IsDict(stage3.given.dict["params"])

\* C21: constructing the special stage with a degradation_type outside the
\* eight-effect extended catalogue, or with none, raises an error about
\* degradation_type from the constructor; with a degradation_type of the
\* catalogue (and an otherwise well-formed mapping) construction succeeds.
C21_SpecialTypeValidated ==
    stage3.pc # "none" =>
        /\ ~TypeInCatalogue =>
             /\ stage3.pc = "failed"
             /\ stage3.err.type \in {"ValueError", "TypeError"}
             /\ stage3.err.key = "degradation_type"
        /\ (TypeInCatalogue /\ RestWellFormed) => stage3.pc # "failed"

\* Stage3Degradation({'degradation_type': 'blur'}) was refused.
C21_Witness ==
    /\ stage3.pc = "failed"
    /\ stage3.given = Dict(<<<<"degradation_type", S("blur")>>>>)
    /\ stage3.err.type = "ValueError"

\* C28: a Stage3Degradation constructed with a supported degradation_type T
\* and given a media type reports T as its degradation_type; once apply was
\* called (with 'params' the effect accepts) exactly one effect was
\* constructed, of type T, and it is the one every call runs the frame
\* through.
C28_SpecialStageRunsItsType ==
    (stage3.pc \in {"built", "returned", "raised"} /\ stage3.media_type # None) =>
        /\ stage3.degradation_type = stage3.given.dict["degradation_type"]
        /\ (/\ stage3.calls > 0
            /\ Construct(stage3.given.dict["degradation_type"].str,
                         Get(stage3.given, "params", EmptyDict)).ok) =>
             /\ stage3.made = 1
             /\ stage3.degrader # None
             /\ stage3.degrader.cls = stage3.given.dict["degradation_type"].str
             /\ stage3.err # Err("ValueError", "stage3.type_not_initialised")

\* The configuration is a list of well-formed entries of registered single
\* effects (no 'composite' entry), so that entry i builds effect i.
SingleEffectConfigs ==
    /\ IsList(configs)
    /\ \A i \in 1..Len(configs.list) :
         /\ IsDict(configs.list[i])
         /\ Has(configs.list[i], "name")
         /\ IsRegistered(configs.list[i].dict["name"])
         /\ IsDict(Get(configs.list[i], "params", EmptyDict))

\* A mapping that holds only a 'params' key.
OnlyParams(p) == IsDict(p) /\ p.keys = <<"params">>

\* A {name, params}-shaped mapping.
NameParamsShaped(p) == IsDict(p) /\ RangeOf(p.keys) = {"name", "params"}

\* The effect of entry i when its params mapping is unwrapped one level
\* if wrapper(p) holds, and taken as given otherwise.
EffectOfEntry(i, wrapper(_)) ==
    LET p == Get(configs.list[i], "params", EmptyDict)
    IN  Construct(configs.list[i].dict["name"].str,
                  IF wrapper(p) THEN p.dict["params"] ELSE p)

\* The pipeline holds exactly the effects EffectOfEntry gives, or failed to
\* build when one of them cannot be constructed.
BuiltFromInner(wrapper(_)) ==
    IF \A i \in 1..Len(configs.list) : EffectOfEntry(i, wrapper).ok
    THEN /\ pipeline.status = "built"
         /\ Len(pipeline.degradations) = Len(configs.list)
         /\ \A i \in 1..Len(configs.list) :
              /\ pipeline.degradations[i].cls = EffectOfEntry(i, wrapper).eff.cls
              /\ pipeline.degradations[i].params = EffectOfEntry(i, wrapper).eff.params
    ELSE pipeline.status = "failed"

\* The configuration is one 'composite' entry of registered sub-effects, so
\* that sub-effect j of the entry builds effect j.
OneCompositeConfig ==
    /\ IsList(configs)
    /\ Len(configs.list) = 1
    /\ IsDict(configs.list[1])
    /\ Has(configs.list[1], "name")
    /\ configs.list[1].dict["name"] = S("composite")
    /\ IsDict(Get(configs.list[1], "params", EmptyDict))
    /\ \A k \in RangeOf(Get(configs.list[1], "params", EmptyDict).keys) : IsRegistered(S(k))

\* The effect of sub-effect j of the composite entry, its parameters
\* unwrapped one level if wrapper(p) holds.
EffectOfSub(j, wrapper(_)) ==
    LET subs == Get(configs.list[1], "params", EmptyDict)
        p == subs.dict[subs.keys[j]]
    IN  Construct(subs.keys[j], IF wrapper(p) THEN p.dict["params"] ELSE p)

\* The pipeline holds exactly the effects EffectOfSub gives, or failed to
\* build when one of them cannot be constructed.
SubsBuiltFromInner(wrapper(_)) ==
    LET n == Len(Get(configs.list[1], "params", EmptyDict).keys)
    IN  IF \A j \in 1..n : EffectOfSub(j, wrapper).ok
        THEN /\ pipeline.status = "built"
             /\ Len(pipeline.degradations) = n
             /\ \A j \in 1..n :
                  /\ pipeline.degradations[j].cls = EffectOfSub(j, wrapper).eff.cls
                  /\ pipeline.degradations[j].params = EffectOfSub(j, wrapper).eff.params
        ELSE pipeline.status = "failed"

\* A pipeline was constructed from the configuration list, which has not
\* been used for a second pipeline since.
FirstUse == pipeline.status # "none" /\ other.status = "none"

\* C23 as stated: a params mapping that is {name, params}-shaped or holds
\* only 'params' is unwrapped exactly one level and the effect is built from
\* the inner mapping; nothing is unwrapped a second time.
C23_WrappersUnwrappedOnce ==
    /\ (SingleEffectConfigs /\ FirstUse) =>
          BuiltFromInner(LAMBDA p : OnlyParams(p) \/ NameParamsShaped(p))
    /\ (OneCompositeConfig /\ FirstUse) =>
          SubsBuiltFromInner(LAMBDA p : OnlyParams(p) \/ NameParamsShaped(p))

\* C23 amended: only a params mapping that holds nothing but 'params' is
\* unwrapped, exactly one level; a {name, params}-shaped mapping and a
\* second level of wrapping are handed to the effect as they are.
C23_OnlyParamsUnwrappedOnce ==
    /\ (SingleEffectConfigs /\ FirstUse) => BuiltFromInner(OnlyParams)
    /\ (OneCompositeConfig /\ FirstUse) => SubsBuiltFromInner(OnlyParams)

\* A pipeline built from an entry wrapped once holds the inner intensity
\* and no 'params' parameter, and has processed a frame.
C23_Witness ==
    /\ configs = L(<<E_wrapped>>)
    /\ pipeline.status = "built"
    /\ Has(pipeline.degradations[1].params, "intensity")
    /\ ~Has(pipeline.degradations[1].params, "params")
    /\ call.pc = "returned"

\* C25: the frame counter of every flicker or shake instance is 0 at
\* construction and equals the number of its apply calls that returned,
\* whether or not the gate fired and whatever calls raised in between.
C25_CounterCountsReturnedCalls ==
    pipeline.status = "built" =>
        \A j \in 1..Len(pipeline.degradations) :
            pipeline.degradations[j].cls \in Gated =>
                pipeline.degradations[j].frame_counter = pipeline.returned[j]

\* A flicker instance gated to every second frame has returned from two
\* apply calls, the second with its gate closed, in a pipeline whose current
\* call raised.
C25_Witness ==
    /\ pipeline.status = "built"
    /\ call.pc = "raised"
    /\ \E j \in 1..Len(pipeline.degradations) :
         /\ pipeline.degradations[j].cls = "flicker"
         /\ pipeline.returned[j] = 2
         /\ pipeline.degradations[j].frame_counter = 2

\* C24: constructing a second pipeline, also from the configuration list
\* object of the first, changes neither the normalised parameters nor the
\* frame counters held by the effects of the first pipeline.
C24_PipelinesShareNoState ==
    [][other' # other => pipeline'.degradations = pipeline.degradations]_vars

\* C22: video compression of N >= 1 frames whose encoder round trip yields
\* M frames returns, when M >= 1, exactly N frames: the first min(M, N) are
\* the encoder's frames in order and the remaining N - M are copies of the
\* encoder's last frame; when M = 0 it raises; and one rank-3 input frame
\* gives a rank-3 output.
C22_FrameCountRestored ==
    LET N == vc.n
        M == Len(vc.codec)
    IN  /\ vc.pc = "returned" =>
             /\ M >= 1
             /\ Len(vc.out) = N
             /\ \A i \in 1..N : vc.out[i] = IF i <= M THEN vc.codec[i] ELSE vc.codec[M]
             /\ vc.rank = IF vc.single THEN 3 ELSE 4
        /\ (vc.pc = "raised" /\ vc.err.cause.site # "ffmpeg") => M = 0
        /\ vc.pc \in {"returned", "raised"} => (M = 0 <=> vc.pc = "raised")

\* Three frames went in, the encoder gave two back, and the call returned
\* them followed by a copy of the second.
C22_Witness ==
    /\ vc.pc = "returned"
    /\ vc.n = 3
    /\ vc.codec = <<1, 2>>
    /\ vc.out = <<1, 2, 2>>

\* The caller of single_main_demo supplied no parameters.
NoParamsGiven == smain.validated_params # None /\ smain.given \in {None, EmptyDict}

\* C30: for every registered effect name, the parameters single_main_demo
\* passes when the caller supplies none (the defaults of
\* validate_degradation_params) are accepted by the effect's construction:
\* every default key is on the effect's allow-list, construction succeeds,
\* and the request does not end in an error result of the construction.
C30_DefaultsAccepted ==
    NoParamsGiven =>
        LET c == Construct(smain.degradation_type, smain.validated_params)
        IN  /\ \A i \in 1..Len(smain.validated_params.keys) :
                 smain.validated_params.keys[i]
                     \in RangeOf(allowed_params[smain.degradation_type])
            /\ c.ok
            /\ smain.status = "error" => smain.err # c.err

====
